---------------------------- MODULE Spec2Model ----------------------------
(***************************************************************************)
(* Verification model of the sport tracker's analytical layer:             *)
(*   - the personal-record detector (utils/recordDetection) and the        *)
(*     record store that PersonalRecordsService keeps in IndexedDB,        *)
(*   - the activity store (ActivityService),                               *)
(*   - the training-zone settings service and the zone calculations.       *)
(*                                                                         *)
(* Numbers.  JavaScript numbers that the code divides (speeds, averages)   *)
(* are modelled as exact rationals [n, d] in lowest terms; d = 0 encodes   *)
(* the IEEE results of a division by zero (1/0 = Infinity, 0/0 = NaN) and  *)
(* NoValue encodes `undefined`.  Strings built by template literals are    *)
(* modelled as tuples of their parts.                                      *)
(***************************************************************************)
EXTENDS Integers, Sequences, FiniteSets, TLC

VARIABLES
    catalog,      \* the file behind each activity id: an id names one workout
    activities,   \* ActivityService's table: activity id -> Activity
    records,      \* PersonalRecordsService's table: record id -> PersonalRecord
    removed,      \* ids passed to deleteActivity and not imported again since
    now,          \* the clock read by `new Date()`
    dAct,         \* detector harness: the activity handed to detectRecords
    dExisting,    \* detector harness: the existingRecords list
    dResults,     \* detector harness: detectRecords' return value
    dCreated,     \* detector harness: the records created from dResults
    dSecond,      \* detector harness: the second run's return value
    dPhase,       \* detector harness: position of the harness
    storage,      \* localStorage item 'training_zones_settings'
    cfgCalls,     \* the last two configuration calls on TrainingZonesService
    zDist,        \* zone harness: the ZoneDistribution input
    zPct,         \* zone harness: calculateZonePercentages' result
    zType,        \* zone harness: determineTrainingType's result
    zPhase,       \* zone harness: position of the harness
    arg,          \* function harness: the argument of the function applied
    result,       \* function harness: the value the function returned
    called,       \* function harness: the function applied, "idle" before
    strava,       \* Strava's side: the revision of each activity the API serves
    requests,     \* the activity-details requests the last sync call sent
    lastSync,     \* localStorage item written by StravaAuthService.updateLastSync
    calls,        \* the detectAndSaveRecords calls in progress, each at an await
    hook,         \* useCommentaryGenerator: its state and its refs
    pending       \* useCommentaryGenerator: the generate calls not yet settled

storeVars  == <<catalog, activities, records, removed, now>>
detectVars == <<dAct, dExisting, dResults, dCreated, dSecond, dPhase>>
zoneVars   == <<storage, cfgCalls>>
tableVars  == <<catalog, activities, records, removed>>
pctVars    == <<zDist, zPct, zType, zPhase>>
fnVars     == <<arg, result, called>>
syncVars   == <<strava, requests, lastSync>>
asyncVars  == <<calls, hook, pending>>
auxVars    == <<arg, result, called, strava, requests, lastSync,
               calls, hook, pending>>
vars == <<catalog, activities, records, removed, now,
          dAct, dExisting, dResults, dCreated, dSecond, dPhase,
          storage, cfgCalls, zDist, zPct, zType, zPhase,
          arg, result, called, strava, requests, lastSync,
          calls, hook, pending>>

---------------------------------------------------------------------------
(* Bounds of the model *)

\* activity ids are 1..MaxAct (their order is the order of the id strings)
MaxAct == 3
\* detectAndSaveRecords calls per behaviour (each advances the clock)
MaxNow == 4
\* records in the existingRecords list of the detector harness
MaxExisting == 2
\* seconds accumulated in one bucket of a ZoneDistribution
MaxZoneTime == 3
\* trackpoints of one activity handed to calculateStatistics
MaxTrackpoints == 3

---------------------------------------------------------------------------
(* JavaScript numbers *)

\* `undefined` for an optional number
NoValue == [n |-> 0, d |-> -1]
\* 0/0
NaN == [n |-> 0, d |-> 0]
\* an optional integer field that is absent (Trackpoint, Lap, Activity)
Absent == -1

Abs(x) == IF x < 0 THEN -x ELSE x

RECURSIVE GCD(_, _)
GCD(a, b) == IF b = 0 THEN a ELSE GCD(b, a % b)

\* n / d as JavaScript evaluates it, for integers n >= 0 and d >= 0
Div(n, d) ==
    IF d = 0 THEN (IF n = 0 THEN NaN ELSE [n |-> 1, d |-> 0])
    ELSE LET g == GCD(Abs(n), d) IN
         IF g = 0 THEN [n |-> 0, d |-> 1]
         ELSE [n |-> n \div g, d |-> d \div g]

Num(i) == [n |-> i, d |-> 1]

IsNumber(a) == a.d >= 0 /\ a # NaN
\* a < b and a > b on numbers: false as soon as one side is NaN or undefined
RLt(a, b) == IsNumber(a) /\ IsNumber(b) /\ a.n * b.d < b.n * a.d
RGt(a, b) == RLt(b, a)
\* a - b on finite numbers
RSub(a, b) ==
    LET n == a.n * b.d - b.n * a.d
        d == a.d * b.d
        g == GCD(Abs(n), d)
    IN  IF d = 0 THEN NaN
        ELSE IF n = 0 THEN [n |-> 0, d |-> 1]
        ELSE [n |-> n \div g, d |-> d \div g]

RECURSIVE SumSeq(_)
SumSeq(s) == IF s = <<>> THEN 0 ELSE Head(s) + SumSeq(Tail(s))

\* mutant of MaxSeq: the first sample taken for the maximum
MaxSeq_First(s) == Head(s)

RECURSIVE MaxSeq(_)
MaxSeq(s) ==
    IF Len(s) = 1 THEN Head(s)
    ELSE LET m == MaxSeq(Tail(s)) IN IF Head(s) > m THEN Head(s) ELSE m

RECURSIVE MinSeq(_)
MinSeq(s) ==
    IF Len(s) = 1 THEN Head(s)
    ELSE LET m == MinSeq(Tail(s)) IN IF Head(s) < m THEN Head(s) ELSE m

---------------------------------------------------------------------------
(* Activities (types/activity) and the statistics engine *)

\* Trackpoint: every field but `time` is optional (Absent)
Tp(time, altitude, heartRate, cadence, speed) ==
    [time |-> time, altitude |-> altitude, heartRate |-> heartRate,
     cadence |-> cadence, speed |-> speed]

Lap(maximumSpeed, trackpoints) ==
    [maximumSpeed |-> maximumSpeed, trackpoints |-> trackpoints]

Activity(id, sport, startTime, totalTimeSeconds, distanceMeters, calories, laps) ==
    [id |-> id, sport |-> sport, startTime |-> startTime,
     totalTimeSeconds |-> totalTimeSeconds, distanceMeters |-> distanceMeters,
     calories |-> calories, laps |-> laps]

\* mutant of IsPresent: a sample of 0 taken for a missing one
IsPresent_Truthy(x) == x # Absent /\ x # 0

IsPresent(x) == x # Absent

\* mutant of IsPositiveSpeed: every speed carried is taken, 0 included
IsPositiveSpeed_Carried(x) == x # Absent

IsPositiveSpeed(x) == x # Absent /\ x > 0

RECURSIVE AllTrackpoints(_)
AllTrackpoints(laps) ==
    IF laps = <<>> THEN <<>>
    ELSE Head(laps).trackpoints \o AllTrackpoints(Tail(laps))

\* the loop over consecutive altitude samples: accumulated positive deltas
RECURSIVE ElevationGain(_)
ElevationGain(alts) ==
    IF Len(alts) < 2 THEN 0
    ELSE (IF alts[2] - alts[1] > 0 THEN alts[2] - alts[1] ELSE 0)
         + ElevationGain(Tail(alts))

\* ... and the accumulated magnitude of the other deltas
RECURSIVE ElevationLoss(_)
ElevationLoss(alts) ==
    IF Len(alts) < 2 THEN 0
    ELSE (IF alts[2] - alts[1] > 0 THEN 0 ELSE Abs(alts[2] - alts[1]))
         + ElevationLoss(Tail(alts))

\* 1000 / (speed * 60), emitted only when speed > 0
Pace(speed) ==
    IF ~RGt(speed, Num(0)) THEN NoValue
    ELSE IF speed.d = 0 THEN Num(0)
    ELSE Div(1000 * speed.d, 60 * speed.n)

OptNum(defined, i) == IF defined THEN Num(i) ELSE NoValue

\* mutant of EmptyStatistics: no speed without trackpoints
EmptyStatistics_NoSpeed(activity) ==
    [totalDistance |-> activity.distanceMeters,
     totalTime |-> activity.totalTimeSeconds,
     averageSpeed |-> Num(0),
     maxSpeed |-> Num(0),
     averageHeartRate |-> NoValue, maxHeartRate |-> NoValue,
     minHeartRate |-> NoValue, averageCadence |-> NoValue,
     maxCadence |-> NoValue,
     totalCalories |-> activity.calories,
     elevationGain |-> NoValue, elevationLoss |-> NoValue,
     minAltitude |-> NoValue, maxAltitude |-> NoValue,
     averagePace |-> NoValue, maxPace |-> NoValue]

\* the object returned when the laps hold no trackpoint; the properties it
\* lacks read as undefined
EmptyStatistics(activity) ==
    [totalDistance |-> activity.distanceMeters,
     totalTime |-> activity.totalTimeSeconds,
     averageSpeed |-> Div(activity.distanceMeters, activity.totalTimeSeconds),
     maxSpeed |-> Num(0),
     averageHeartRate |-> NoValue, maxHeartRate |-> NoValue,
     minHeartRate |-> NoValue, averageCadence |-> NoValue,
     maxCadence |-> NoValue,
     totalCalories |-> activity.calories,
     elevationGain |-> NoValue, elevationLoss |-> NoValue,
     minAltitude |-> NoValue, maxAltitude |-> NoValue,
     averagePace |-> NoValue, maxPace |-> NoValue]

calculateStatistics(activity) ==
    LET all == AllTrackpoints(activity.laps)
        col(f) == [i \in 1..Len(all) |-> all[i][f]]
        heartRates == SelectSeq(col("heartRate"), IsPresent)
        cadences   == SelectSeq(col("cadence"), IsPresent)
        altitudes  == SelectSeq(col("altitude"), IsPresent)
        speeds     == SelectSeq(col("speed"), IsPositiveSpeed)
        lapMax     == [i \in 1..Len(activity.laps) |->
                         IF activity.laps[i].maximumSpeed = Absent
                            \/ activity.laps[i].maximumSpeed = 0
                         THEN 0 ELSE activity.laps[i].maximumSpeed]
        elevationGain == ElevationGain(altitudes)
        elevationLoss == ElevationLoss(altitudes)
        maxSpeed == IF Len(speeds) > 0 THEN Num(MaxSeq(speeds))
                    ELSE Num(MaxSeq(lapMax))
        averageSpeed == IF Len(speeds) > 0 THEN Div(SumSeq(speeds), Len(speeds))
                        ELSE Div(activity.distanceMeters, activity.totalTimeSeconds)
    IN  IF Len(all) = 0
        THEN EmptyStatistics(activity)
        ELSE [totalDistance |-> activity.distanceMeters,
              totalTime |-> activity.totalTimeSeconds,
              averageSpeed |-> averageSpeed,
              maxSpeed |-> maxSpeed,
              averageHeartRate |->
                  IF Len(heartRates) > 0
                  THEN Div(SumSeq(heartRates), Len(heartRates)) ELSE NoValue,
              maxHeartRate |->
                  IF Len(heartRates) > 0 THEN Num(MaxSeq(heartRates)) ELSE NoValue,
              minHeartRate |->
                  IF Len(heartRates) > 0 THEN Num(MinSeq(heartRates)) ELSE NoValue,
              averageCadence |->
                  IF Len(cadences) > 0
                  THEN Div(SumSeq(cadences), Len(cadences)) ELSE NoValue,
              maxCadence |->
                  IF Len(cadences) > 0 THEN Num(MaxSeq(cadences)) ELSE NoValue,
              totalCalories |-> activity.calories,
              elevationGain |-> OptNum(elevationGain > 0, elevationGain),
              elevationLoss |-> OptNum(elevationLoss > 0, elevationLoss),
              minAltitude |->
                  IF Len(altitudes) > 0 THEN Num(MinSeq(altitudes)) ELSE NoValue,
              maxAltitude |->
                  IF Len(altitudes) > 0 THEN Num(MaxSeq(altitudes)) ELSE NoValue,
              averagePace |-> Pace(averageSpeed),
              maxPace |-> Pace(maxSpeed)]

---------------------------------------------------------------------------
(* The personal-record detector (utils/recordDetection) *)

\* DISTANCE_CATEGORIES, in the insertion order Object.entries walks
DISTANCE_CATEGORIES ==
    << [category |-> "1km",          min |-> 900,   max |-> 1100],
       [category |-> "5km",          min |-> 4500,  max |-> 5500],
       [category |-> "10km",         min |-> 9500,  max |-> 10500],
       [category |-> "halfMarathon", min |-> 20000, max |-> 22000],
       [category |-> "marathon",     min |-> 41000, max |-> 43000] >>

\* index of the first record of the list that Array.prototype.find returns
\* for (type, category, sport); 0 when find returns undefined
RECURSIVE FindFrom(_, _, _, _, _)
FindFrom(existingRecords, i, type, category, sport) ==
    IF i > Len(existingRecords) THEN 0
    ELSE IF /\ existingRecords[i].type = type
            /\ existingRecords[i].category = category
            /\ existingRecords[i].sport = sport
         THEN i
         ELSE FindFrom(existingRecords, i + 1, type, category, sport)

Find(existingRecords, type, category, sport) ==
    FindFrom(existingRecords, 1, type, category, sport)

\* the calories lookup tests the type and the sport only
RECURSIVE FindCaloriesFrom(_, _, _)
FindCaloriesFrom(existingRecords, i, sport) ==
    IF i > Len(existingRecords) THEN 0
    ELSE IF existingRecords[i].type = "calories" /\ existingRecords[i].sport = sport
         THEN i
         ELSE FindCaloriesFrom(existingRecords, i + 1, sport)

Detection(recordType, category, value, previousValue, improvement) ==
    [isRecord |-> TRUE, recordType |-> recordType, category |-> category,
     value |-> value, previousValue |-> previousValue, improvement |-> improvement]

\* mutant of HigherIsBetter: the improvement is always the raw value
HigherIsBetter_RawImprovement(existingRecords, i, recordType, category, value) ==
    IF i = 0
    THEN << Detection(recordType, category, value, NoValue, value) >>
    ELSE IF RGt(value, existingRecords[i].value)
         THEN << Detection(recordType, category, value, existingRecords[i].value,
                           value) >>
         ELSE << >>

\* the shape shared by the higher-is-better passes:
\*   if (!rec || value > rec.value) push {..., improvement: rec ? value - rec.value : value}
HigherIsBetter(existingRecords, i, recordType, category, value) ==
    IF i = 0
    THEN << Detection(recordType, category, value, NoValue, value) >>
    ELSE IF RGt(value, existingRecords[i].value)
         THEN << Detection(recordType, category, value, existingRecords[i].value,
                           RSub(value, existingRecords[i].value)) >>
         ELSE << >>

detectDistanceRecords(activity, existingRecords) ==
    HigherIsBetter(existingRecords,
                   Find(existingRecords, "distance", "longest", activity.sport),
                   "distance", "longest", Num(activity.distanceMeters))

detectSpeedRecords(activity, existingRecords) ==
    LET stats == calculateStatistics(activity) IN
    HigherIsBetter(existingRecords,
                   Find(existingRecords, "speed", "fastest", activity.sport),
                   "speed", "fastest", stats.maxSpeed)
    \o (IF activity.distanceMeters >= 9500 /\ activity.distanceMeters <= 10500
        THEN HigherIsBetter(existingRecords,
                            Find(existingRecords, "speed", "10km", activity.sport),
                            "speed", "10km", stats.averageSpeed)
        ELSE << >>)

\* mutant of TimeRecordFor: the comparison of the other passes (higher wins)
TimeRecordFor_HigherWins(band, activity, existingRecords) ==
    LET distance == activity.distanceMeters
        time == Num(activity.totalTimeSeconds)
        i == Find(existingRecords, "time", band.category, activity.sport)
    IN  IF distance >= band.min /\ distance <= band.max
        THEN IF i = 0
             THEN << Detection("time", band.category, time, NoValue, Num(0)) >>
             ELSE IF RGt(time, existingRecords[i].value)
                  THEN << Detection("time", band.category, time,
                                    existingRecords[i].value,
                                    RSub(existingRecords[i].value, time)) >>
                  ELSE << >>
        ELSE << >>

\* one iteration of the forEach over DISTANCE_CATEGORIES
TimeRecordFor(band, activity, existingRecords) ==
    LET distance == activity.distanceMeters
        time == Num(activity.totalTimeSeconds)
        i == Find(existingRecords, "time", band.category, activity.sport)
    IN  IF distance >= band.min /\ distance <= band.max
        THEN IF i = 0
             THEN << Detection("time", band.category, time, NoValue, Num(0)) >>
             ELSE IF RLt(time, existingRecords[i].value)
                  THEN << Detection("time", band.category, time,
                                    existingRecords[i].value,
                                    RSub(existingRecords[i].value, time)) >>
                  ELSE << >>
        ELSE << >>

RECURSIVE TimeRecordsFrom(_, _, _)
TimeRecordsFrom(k, activity, existingRecords) ==
    IF k > Len(DISTANCE_CATEGORIES) THEN << >>
    ELSE TimeRecordFor(DISTANCE_CATEGORIES[k], activity, existingRecords)
         \o TimeRecordsFrom(k + 1, activity, existingRecords)

detectTimeRecords(activity, existingRecords) ==
    TimeRecordsFrom(1, activity, existingRecords)

detectElevationRecords(activity, existingRecords) ==
    LET stats == calculateStatistics(activity) IN
    \* !stats.elevationGain: undefined (0 is never emitted by the statistics)
    IF stats.elevationGain = NoValue \/ stats.elevationGain = Num(0) THEN << >>
    ELSE HigherIsBetter(existingRecords,
                        Find(existingRecords, "elevation", "highest", activity.sport),
                        "elevation", "highest", stats.elevationGain)

detectCalorieRecords(activity, existingRecords) ==
    \* !activity.calories: undefined or 0
    IF activity.calories = Absent \/ activity.calories = 0 THEN << >>
    ELSE HigherIsBetter(existingRecords,
                        FindCaloriesFrom(existingRecords, 1, activity.sport),
                        "calories", "longest", Num(activity.calories))

IsRecord(r) == r.isRecord

detectRecords(activity, existingRecords) ==
    SelectSeq(detectDistanceRecords(activity, existingRecords)
              \o detectSpeedRecords(activity, existingRecords)
              \o detectTimeRecords(activity, existingRecords)
              \o detectElevationRecords(activity, existingRecords)
              \o detectCalorieRecords(activity, existingRecords),
              IsRecord)

getUnitForRecordType(type) ==
    CASE type = "distance"  -> "m"
      [] type = "speed"     -> "m/s"
      [] type = "pace"      -> "min/km"
      [] type = "time"      -> "s"
      [] type = "elevation" -> "m"
      [] type = "calories"  -> "kcal"
      [] type = "heartRate" -> "bpm"

\* `${activity.id}-${detection.recordType}-${detection.category}`
RecordId(activityId, recordType, category) == <<activityId, recordType, category>>

\* mutant of createRecordFromDetection: the id does not tell the record types
\* apart
createRecordFromDetection_NoType(detection, activity) ==
    [id |-> RecordId(activity.id, "distance", detection.category),
     type |-> detection.recordType,
     category |-> detection.category,
     value |-> detection.value,
     unit |-> getUnitForRecordType(detection.recordType),
     activityId |-> activity.id,
     activityDate |-> activity.startTime,
     sport |-> activity.sport,
     previousValue |-> detection.previousValue,
     improvement |-> detection.improvement,
     createdAt |-> now,
     isNew |-> TRUE]

\* createdAt is the clock at the call (new Date())
createRecordFromDetection(detection, activity) ==
    [id |-> RecordId(activity.id, detection.recordType, detection.category),
     type |-> detection.recordType,
     category |-> detection.category,
     value |-> detection.value,
     unit |-> getUnitForRecordType(detection.recordType),
     activityId |-> activity.id,
     activityDate |-> activity.startTime,
     sport |-> activity.sport,
     previousValue |-> detection.previousValue,
     improvement |-> detection.improvement,
     createdAt |-> now,
     isNew |-> TRUE]

---------------------------------------------------------------------------
(* The record store (PersonalRecordsService) and the activity store *)

\* the record types and categories in the order of their strings, which is
\* the order of the primary keys `${activityId}-${type}-${category}` of one
\* activity
TypeOrder == <<"calories", "distance", "elevation", "heartRate", "pace", "speed", "time">>
CategoryOrder ==
    <<"10km", "1km", "5km", "fastest", "halfMarathon", "highest", "longest", "marathon">>

IndexOf(seq, x) == CHOOSE i \in 1..Len(seq) : seq[i] = x

\* key1 sorts before key2 in the table's primary-key order
KeyLess(key1, key2) ==
    \/ key1[1] < key2[1]
    \/ /\ key1[1] = key2[1]
       /\ IndexOf(TypeOrder, key1[2]) < IndexOf(TypeOrder, key2[2])
    \/ /\ key1[1] = key2[1]
       /\ key1[2] = key2[2]
       /\ IndexOf(CategoryOrder, key1[3]) < IndexOf(CategoryOrder, key2[3])

RECURSIVE SortedKeys(_)
SortedKeys(keys) ==
    IF keys = {} THEN << >>
    ELSE LET first == CHOOSE k \in keys : \A o \in keys \ {k} : KeyLess(k, o)
         IN  <<first>> \o SortedKeys(keys \ {first})

\* mutant of the read: the rows of every sport but the one asked for
getRecordsBySportOf_Others(table, sport) ==
    LET keys == SortedKeys({k \in DOMAIN table : table[k].sport # sport})
    IN  [i \in 1..Len(keys) |-> table[keys[i]]]

\* recordsDb.records.where('sport').equals(sport).toArray(): the matching
\* rows in primary-key order
getRecordsBySportOf(table, sport) ==
    LET keys == SortedKeys({k \in DOMAIN table : table[k].sport = sport})
    IN  [i \in 1..Len(keys) |-> table[keys[i]]]

getRecordsBySport(sport) == getRecordsBySportOf(records, sport)

\* recordsDb.records.put(record): insert, or replace the row with the same id
Put(table, record) ==
    [k \in DOMAIN table \cup {record.id} |->
        IF k = record.id THEN record ELSE table[k]]

RECURSIVE PutAll(_, _)
PutAll(table, recs) ==
    IF recs = << >> THEN table
    ELSE PutAll(Put(table, Head(recs)), Tail(recs))

\* the records detectAndSaveRecords creates, in the order it puts them
NewRecordsFor(activity, existingRecords) ==
    LET detections == SelectSeq(detectRecords(activity, existingRecords), IsRecord)
    IN  [i \in 1..Len(detections) |-> createRecordFromDetection(detections[i], activity)]

\* the activities a user imports: (sport, startTime, totalTimeSeconds,
\* distanceMeters, calories, laps)
Profiles ==
    { <<"Running", 10, 1200, 5000, 300, << >> >>,
      <<"Running", 20, 3000, 10000, Absent,
        << Lap(5, << Tp(0, 10, 120, Absent, 4), Tp(60, 30, 150, Absent, 5) >>) >> >>,
      <<"Running", 30, 2400, 8000, 250, << >> >>,
      <<"Cycling", 40, 1300, 8000, 400, << >> >> }

ActIds == 1..MaxAct

\* ActivityService.addActivity: db.activities.add rejects an id already stored
AddActivity(id, p) ==
    /\ id \notin DOMAIN activities
    /\ p = catalog[id]
    /\ activities' = [k \in DOMAIN activities \cup {id} |->
                        IF k = id THEN Activity(id, p[1], p[2], p[3], p[4], p[5], p[6])
                        ELSE activities[k]]
    /\ removed' = removed \ {id}
    /\ UNCHANGED <<records, now, catalog>>
    /\ UNCHANGED <<detectVars, zoneVars, pctVars, auxVars>>

\* PersonalRecordsService.detectAndSaveRecords(activity), run to completion
DetectAndSaveRecords(id) ==
    /\ id \in DOMAIN activities
    /\ now < MaxNow
    /\ LET activity == activities[id]
           existingRecords == getRecordsBySport(activity.sport)
       IN  records' = PutAll(records, NewRecordsFor(activity, existingRecords))
    /\ now' = now + 1
    /\ UNCHANGED <<activities, removed, catalog>>
    /\ UNCHANGED <<detectVars, zoneVars, pctVars, auxVars>>

\* PersonalRecordsService.markRecordsAsSeen(recordIds), with the ids of the
\* stored records of one activity
MarkRecordsAsSeen(id) ==
    /\ \E k \in DOMAIN records : records[k].activityId = id /\ records[k].isNew
    /\ records' = [k \in DOMAIN records |->
                     IF records[k].activityId = id
                     THEN [records[k] EXCEPT !.isNew = FALSE]
                     ELSE records[k]]
    /\ UNCHANGED <<activities, removed, now, catalog>>
    /\ UNCHANGED <<detectVars, zoneVars, pctVars, auxVars>>

\* useActivities.deleteActivity -> ActivityService.deleteActivity(id):
\* db.activities.delete(id) and nothing else
DeleteActivity(id) ==
    /\ id \in DOMAIN activities
    /\ activities' = [k \in DOMAIN activities \ {id} |-> activities[k]]
    /\ removed' = removed \cup {id}
    /\ UNCHANGED <<records, now, catalog>>
    /\ UNCHANGED <<detectVars, zoneVars, pctVars, auxVars>>

EmptyTable == [k \in {} |-> 0]

StoreInit ==
    /\ catalog \in [ActIds -> Profiles]
    /\ activities = EmptyTable
    /\ records = EmptyTable
    /\ removed = {}
    /\ now = 0

---------------------------------------------------------------------------
(* Detector harness: detectRecords and createRecordFromDetection applied to
   one activity and one list of stored records, then applied again to the
   list that also holds the records just created *)

\* a record stored by an earlier detection
PriorRecord(activityId, type, category, sport, value) ==
    [id |-> RecordId(activityId, type, category),
     type |-> type, category |-> category, value |-> Num(value),
     unit |-> getUnitForRecordType(type),
     activityId |-> activityId, activityDate |-> activityId, sport |-> sport,
     previousValue |-> NoValue, improvement |-> Num(value),
     createdAt |-> 0, isNew |-> FALSE]

\* the activity under test has id 2; the stored records come from the
\* activities 0 (Cycling), 1 and 3 (Running)
PriorRecords ==
    { PriorRecord(1, "distance", "longest", "Running", 5000),
      PriorRecord(3, "distance", "longest", "Running", 9000),
      PriorRecord(0, "distance", "longest", "Cycling", 20000),
      PriorRecord(1, "speed", "fastest", "Running", 3),
      PriorRecord(1, "speed", "10km", "Running", 3),
      PriorRecord(1, "time", "1km", "Running", 1200),
      PriorRecord(1, "time", "5km", "Running", 1200),
      PriorRecord(3, "time", "5km", "Running", 1150),
      PriorRecord(1, "time", "10km", "Running", 1200),
      PriorRecord(1, "time", "halfMarathon", "Running", 1200),
      PriorRecord(1, "time", "marathon", "Running", 1200),
      PriorRecord(1, "elevation", "highest", "Running", 15),
      PriorRecord(1, "calories", "longest", "Running", 280),
      PriorRecord(0, "calories", "longest", "Cycling", 500) }

TableOf(recs) == [k \in {r.id : r \in recs} |-> CHOOSE r \in recs : r.id = k]

\* a table's rows in primary-key order
Rows(table) ==
    LET keys == SortedKeys(DOMAIN table)
    IN  [i \in 1..Len(keys) |-> table[keys[i]]]

DetectDistances ==
    { 899, 900, 1100, 1101, 4500, 5500, 8000, 9500, 10500,
      20000, 22000, 41000, 43000, 43001 }

DetectLaps ==
    { << >>,
      << Lap(5, << Tp(0, 10, 120, Absent, 4), Tp(60, 30, 150, Absent, 5) >>) >> }

DetectActivities ==
    { Activity(2, "Running", 20, t, dist, cal, laps) :
        t \in {1100, 1200, 1300}, dist \in DetectDistances,
        cal \in {Absent, 300}, laps \in DetectLaps }

DetectInit ==
    /\ dAct \in DetectActivities
    /\ \E recs \in SUBSET PriorRecords :
          /\ Cardinality(recs) <= MaxExisting
          /\ dExisting = Rows(TableOf(recs))
    /\ dResults = << >>
    /\ dCreated = << >>
    /\ dSecond = << >>
    /\ dPhase = "input"

\* detectRecords(activity, existingRecords), then createRecordFromDetection
\* for each result
RunDetect ==
    /\ dPhase = "input"
    /\ dResults' = detectRecords(dAct, dExisting)
    /\ dCreated' = [i \in 1..Len(detectRecords(dAct, dExisting)) |->
                      createRecordFromDetection(detectRecords(dAct, dExisting)[i], dAct)]
    /\ dPhase' = "detected"
    /\ UNCHANGED <<dAct, dExisting, dSecond>>
    /\ UNCHANGED <<storeVars, zoneVars, pctVars, auxVars>>

\* the lists that hold the stored records together with the created ones:
\* the store's read after the puts, and the two concatenations
MergedList(order) ==
    CASE order = "store" ->
             getRecordsBySportOf(PutAll(TableOf({dExisting[i] : i \in 1..Len(dExisting)}),
                                        dCreated),
                                 dAct.sport)
      [] order = "append" -> dExisting \o dCreated
      [] order = "prepend" -> dCreated \o dExisting

RunAgain(order) ==
    /\ dPhase = "detected"
    /\ dSecond' = detectRecords(dAct, MergedList(order))
    /\ dPhase' = "again"
    /\ UNCHANGED <<dAct, dExisting, dResults, dCreated>>
    /\ UNCHANGED <<storeVars, zoneVars, pctVars, auxVars>>

---------------------------------------------------------------------------
(* Training zones: utils/zoneCalculations and TrainingZonesService *)

ZONE_PERCENTAGES ==
    << [min |-> 50, max |-> 60], [min |-> 60, max |-> 70],
       [min |-> 70, max |-> 80], [min |-> 80, max |-> 90],
       [min |-> 90, max |-> 100] >>

ZONE_NAMES == << "Recuperation", "Endurance", "Tempo", "Seuil", "VO2 Max" >>

\* the doubles x * (p / 100) + r that land under a tie which the exact value
\* reaches: 70 / 100 is a double just under 7/10, and its products with
\* 45, 85, 165 and 175 stay under k + 1/2 while the added r is small
\* (all cases for 0 <= x + r <= 260, 0 <= r <= 120 and the six percentages)
FloatBelowTie(x, p, r) ==
    /\ p = 70
    /\ \/ x = 45 /\ r = 0
       \/ x = 85 /\ r <= 4
       \/ x = 165 /\ r <= 12
       \/ x = 175 /\ r <= 5

\* Math.round(x * (p / 100) + r) for integers x, p, r: half-up rounding of
\* the double the expression evaluates to
RoundPercent(x, p, r) ==
    LET exact == (x * p + 50) \div 100 + r
    IN  IF FloatBelowTie(x, p, r) THEN exact - 1 ELSE exact

calculateMaxHRFromAge(age) == 220 - age

calculateHRReserve(maxHR, restingHR) == maxHR - restingHR

calculateTargetHRKarvonen(maxHR, restingHR, intensityPercent) ==
    RoundPercent(calculateHRReserve(maxHR, restingHR), intensityPercent,
                 restingHR)

\* a HeartRateZone; description, color, benefits and recommendations are
\* constants of the zone number and are left out
HeartRateZone(zone, name, minHR, maxHR, minPercent, maxPercent) ==
    [zone |-> zone, name |-> name, minHR |-> minHR, maxHR |-> maxHR,
     minPercent |-> minPercent, maxPercent |-> maxPercent]

\* JavaScript truthiness of an optional number: undefined and 0 are falsy
Truthy(x) == x # Absent /\ x # 0

defineZones(maxHR, restingHR, method) ==
    [zoneNum \in 1..5 |->
        LET percentRange == ZONE_PERCENTAGES[zoneNum]
            karvonen == method = "karvonen" /\ Truthy(restingHR)
            minHR == IF karvonen
                     THEN calculateTargetHRKarvonen(maxHR, restingHR,
                                                    percentRange.min)
                     ELSE RoundPercent(maxHR, percentRange.min, 0)
            maxHR_zone == IF karvonen
                          THEN calculateTargetHRKarvonen(maxHR, restingHR,
                                                         percentRange.max)
                          ELSE RoundPercent(maxHR, percentRange.max, 0)
        IN  HeartRateZone(zoneNum, ZONE_NAMES[zoneNum], minHR, maxHR_zone,
                          percentRange.min, percentRange.max)]

\* localStorage.getItem's null
Null == [null |-> TRUE]

\* an optional array argument: undefined, or the array
Undefined == [defined |-> FALSE, list |-> << >>]
Given(list) == [defined |-> TRUE, list |-> list]

\* whether the object's property holds a value other than undefined
Defined(obj, key) ==
    CASE key = "customZones" -> obj[key].defined
      [] key \in {"id", "method"} -> TRUE
      [] OTHER -> obj[key] # Absent

\* JSON.parse(JSON.stringify(obj)): properties holding undefined are dropped,
\* the others keep their values
JSONRoundTrip(obj) ==
    [key \in {k \in DOMAIN obj : Defined(obj, k)} |->
        IF key = "customZones" THEN obj[key].list ELSE obj[key]]

\* the object spread { ...f, ...g }
Spread(f, g) ==
    [key \in DOMAIN f \cup DOMAIN g |-> IF key \in DOMAIN g THEN g[key] ELSE f[key]]

\* settings.<key>, undefined for a missing property
Get(settings, key) == IF key \in DOMAIN settings THEN settings[key] ELSE Absent

getSettings == storage

\* mutant of saveSettings: properties of the stored settings that the new
\* item lacks are kept
saveSettings_KeepsOldFields(settings) ==
    LET existingSettings == getSettings
        kept == IF existingSettings = Null
                THEN [id |-> "default", createdAt |-> now]
                ELSE existingSettings
    IN  Spread(kept, JSONRoundTrip(Spread(settings, [updatedAt |-> now])))

\* the item saveSettings writes: { id, ...settings, createdAt, updatedAt }
saveSettings(settings) ==
    LET existingSettings == getSettings
        kept == IF existingSettings = Null
                THEN [id |-> "default", createdAt |-> now]
                ELSE [id |-> existingSettings.id,
                      createdAt |-> existingSettings.createdAt]
    IN  JSONRoundTrip(Spread(Spread(kept, settings), [updatedAt |-> now]))

getZones ==
    LET settings == getSettings
    IN  IF settings = Null
        THEN defineZones(calculateMaxHRFromAge(30), Absent, "age")
        ELSE IF "customZones" \in DOMAIN settings
                /\ Len(settings.customZones) > 0
             THEN settings.customZones
             ELSE defineZones(settings.maxHeartRate,
                              Get(settings, "restingHeartRate"),
                              settings.method)

\* the arguments the configuration calls are driven with
Ages == {30, 40, 45}
RestingHRs == {0, 5, 60}
MaxHRs == {175, 200}
CustomZoneLists ==
    { << >>,
      << HeartRateZone(1, "Facile", 100, 140, 50, 70) >>,
      [z \in 1..5 |-> HeartRateZone(z, ZONE_NAMES[z], 90 + 20 * z,
                                    110 + 20 * z, 45 + 10 * z, 55 + 10 * z)] }
CustomZoneArgs == {Undefined} \cup {Given(l) : l \in CustomZoneLists}

\* one entry of the call log
Call(op, age, restingHR, maxHR, customZones) ==
    [op |-> op, age |-> age, restingHR |-> restingHR, maxHR |-> maxHR,
     customZones |-> customZones]

Logged(call) ==
    IF cfgCalls = << >> THEN << call >> ELSE << cfgCalls[Len(cfgCalls)], call >>

ConfigureByAge(age) ==
    /\ now < MaxNow
    /\ storage' = saveSettings([maxHeartRate |-> calculateMaxHRFromAge(age),
                                method |-> "age", age |-> age])
    /\ now' = now + 1
    /\ cfgCalls' = Logged(Call("age", age, Absent, Absent, Undefined))
    /\ UNCHANGED <<tableVars, detectVars, pctVars, auxVars>>

ConfigureByKarvonen(age, restingHR) ==
    /\ now < MaxNow
    /\ storage' = saveSettings([maxHeartRate |-> calculateMaxHRFromAge(age),
                                restingHeartRate |-> restingHR,
                                method |-> "karvonen", age |-> age])
    /\ now' = now + 1
    /\ cfgCalls' = Logged(Call("karvonen", age, restingHR, Absent, Undefined))
    /\ UNCHANGED <<tableVars, detectVars, pctVars, auxVars>>

ConfigureManually(maxHR, customZones) ==
    /\ now < MaxNow
    /\ storage' = saveSettings([maxHeartRate |-> maxHR, method |-> "manual",
                                customZones |-> customZones])
    /\ now' = now + 1
    /\ cfgCalls' = Logged(Call("manual", Absent, Absent, maxHR, customZones))
    /\ UNCHANGED <<tableVars, detectVars, pctVars, auxVars>>

\* localStorage.removeItem
ResetToDefaults ==
    /\ storage' = Null
    /\ cfgCalls' = Logged(Call("reset", Absent, Absent, Absent, Undefined))
    /\ UNCHANGED <<tableVars, now, detectVars, pctVars, auxVars>>

ZoneInit == storage = Null /\ cfgCalls = << >>

---------------------------------------------------------------------------
(* Zone distribution: calculateZonePercentages and determineTrainingType *)

ZoneDistribution(zone1, zone2, zone3, zone4, zone5, unknown) ==
    [zone1 |-> zone1, zone2 |-> zone2, zone3 |-> zone3, zone4 |-> zone4,
     zone5 |-> zone5, unknown |-> unknown]

\* the quotients time / total whose product with 100 is a double under a
\* tie that the exact value reaches (all cases for totals under 400)
RatioBelowTie(time, total) ==
    \/ 40 * time = 23 * total
    \/ 200 * time = 29 * total
    \/ 200 * time = 57 * total
    \/ 200 * time = 113 * total

\* mutant of RoundedShare: Math.floor in place of Math.round
RoundedShare_Floor(time, total) == (100 * time) \div total

\* Math.round((time / total) * 100), total > 0
RoundedShare(time, total) ==
    LET exact == (200 * time + total) \div (2 * total)
    IN  IF RatioBelowTie(time, total) THEN exact - 1 ELSE exact

calculateZonePercentages(distribution) ==
    LET total == distribution.zone1 + distribution.zone2 + distribution.zone3
                 + distribution.zone4 + distribution.zone5
                 + distribution.unknown
    IN  IF total = 0
        THEN ZoneDistribution(0, 0, 0, 0, 0, 0)
        ELSE ZoneDistribution(RoundedShare(distribution.zone1, total),
                              RoundedShare(distribution.zone2, total),
                              RoundedShare(distribution.zone3, total),
                              RoundedShare(distribution.zone4, total),
                              RoundedShare(distribution.zone5, total),
                              RoundedShare(distribution.unknown, total))

\* mutant of determineTrainingType: the endurance rule tried before recovery
determineTrainingType_EnduranceFirst(percentages) ==
    IF percentages.zone2 + percentages.zone3 > 70
       /\ percentages.zone2 > percentages.zone3
    THEN "endurance"
    ELSE IF percentages.zone1 + percentages.zone2 > 60
            /\ percentages.zone1 > percentages.zone2
    THEN "recovery"
    ELSE IF percentages.zone3 + percentages.zone4 > 50
            /\ percentages.zone3 > percentages.zone4
    THEN "tempo"
    ELSE IF percentages.zone4 > 40
    THEN "threshold"
    ELSE IF percentages.zone5 > 20
            \/ (percentages.zone4 + percentages.zone5 > 50
                /\ percentages.zone5 > 15)
    THEN "interval"
    ELSE IF percentages.unknown < 50
    THEN "mixed"
    ELSE "unknown"

determineTrainingType(percentages) ==
    IF percentages.zone1 + percentages.zone2 > 60
       /\ percentages.zone1 > percentages.zone2
    THEN "recovery"
    ELSE IF percentages.zone2 + percentages.zone3 > 70
            /\ percentages.zone2 > percentages.zone3
    THEN "endurance"
    ELSE IF percentages.zone3 + percentages.zone4 > 50
            /\ percentages.zone3 > percentages.zone4
    THEN "tempo"
    ELSE IF percentages.zone4 > 40
    THEN "threshold"
    ELSE IF percentages.zone5 > 20
            \/ (percentages.zone4 + percentages.zone5 > 50
                /\ percentages.zone5 > 15)
    THEN "interval"
    ELSE IF percentages.unknown < 50
    THEN "mixed"
    ELSE "unknown"

\* the distributions and the percentages the two functions are driven with
ZoneTimes == 0..MaxZoneTime
Distributions ==
    [zone1 : ZoneTimes, zone2 : ZoneTimes, zone3 : ZoneTimes,
     zone4 : ZoneTimes, zone5 : ZoneTimes, unknown : ZoneTimes]
ZoneShares == {0, 15, 20, 35, 40, 45, 55}
UnknownShares == {0, 50, 55}
PercentageInputs ==
    [zone1 : ZoneShares, zone2 : ZoneShares, zone3 : ZoneShares,
     zone4 : ZoneShares, zone5 : ZoneShares, unknown : UnknownShares]

CalculateZonePercentages ==
    /\ zPhase = "distribution"
    /\ zPct' = calculateZonePercentages(zDist)
    /\ zPhase' = "percentages"
    /\ UNCHANGED <<zDist, zType, storeVars, detectVars, zoneVars, auxVars>>

DetermineTrainingType ==
    /\ zPhase = "percentages"
    /\ zType' = determineTrainingType(zPct)
    /\ zPhase' = "type"
    /\ UNCHANGED <<zDist, zPct, storeVars, detectVars, zoneVars, auxVars>>

---------------------------------------------------------------------------
(* Functions applied to one argument *)

\* getDominantZone's null
NoZone == 0

\* mutant of getDominantZone: a later zone replaces the maximum on a tie
getDominantZone_LastOnTie(distribution) ==
    LET zones == << distribution.zone1, distribution.zone2, distribution.zone3,
                    distribution.zone4, distribution.zone5 >>
        Reduce[k \in 1..5] ==
            IF k = 1 THEN 1
            ELSE IF zones[k] >= zones[Reduce[k - 1]] THEN k ELSE Reduce[k - 1]
    IN  IF zones[Reduce[5]] > 0 THEN Reduce[5] ELSE NoZone

\* zones.reduce((max, current) => current.time > max.time ? current : max)
\* over zones 1..5, then null unless the maximum is positive
getDominantZone(distribution) ==
    LET zones == << distribution.zone1, distribution.zone2, distribution.zone3,
                    distribution.zone4, distribution.zone5 >>
        Reduce[k \in 1..5] ==
            IF k = 1 THEN 1
            ELSE IF zones[k] > zones[Reduce[k - 1]] THEN k ELSE Reduce[k - 1]
    IN  IF zones[Reduce[5]] > 0 THEN Reduce[5] ELSE NoZone

GetDominantZone ==
    /\ called = "idle"
    /\ result' = getDominantZone(arg)
    /\ called' = "getDominantZone"
    /\ UNCHANGED <<arg, storeVars, detectVars, zoneVars, pctVars, syncVars, asyncVars>>


\* the maximum heart rates defineZones is driven with (ages 0 to 120)
DefineMaxHRs == 100..220

DefineZonesByAge ==
    /\ called = "idle"
    /\ result' = defineZones(arg, Absent, "age")
    /\ called' = "defineZones"
    /\ UNCHANGED <<arg, storeVars, detectVars, zoneVars, pctVars, syncVars, asyncVars>>


\* the trackpoints calculateStatistics is driven with: samples present,
\* missing, and present with the value 0
StatTrackpoints ==
    { Tp(0, 10, 120, 80, 4),
      Tp(60, 30, 151, Absent, 5),
      Tp(120, Absent, Absent, Absent, Absent),
      Tp(180, 20, Absent, 90, 0),
      Tp(240, 10, 0, Absent, Absent),
      Tp(300, Absent, 150, 0, Absent) }

StatTrackpointLists ==
    UNION { [1..n -> StatTrackpoints] : n \in 0..MaxTrackpoints }

\* no lap at all, or the trackpoints split over two laps at any position
SplitLaps(tps) ==
    { << Lap(5, SubSeq(tps, 1, k)), Lap(Absent, SubSeq(tps, k + 1, Len(tps))) >> :
        k \in 0..Len(tps) }

StatLaps == { << >> } \cup UNION { SplitLaps(tps) : tps \in StatTrackpointLists }

StatActivities ==
    { Activity(1, "Running", 1, t, dist, cal, laps) :
        t \in {0, 3000}, dist \in {0, 10000}, cal \in {Absent, 300},
        laps \in StatLaps }

CalculateStatistics ==
    /\ called = "idle"
    /\ result' = calculateStatistics(arg)
    /\ called' = "calculateStatistics"
    /\ UNCHANGED <<arg, storeVars, detectVars, zoneVars, pctVars, syncVars, asyncVars>>


---------------------------------------------------------------------------
(* Dates: the JavaScript Date and the date-fns functions that               *)
(* utils/periodCalculations uses.  A Date is a local calendar day, counted  *)
(* from Sunday 2023-01-01 = 0, and the milliseconds elapsed in that day;    *)
(* days all have 24 hours (no daylight-saving shift).                       *)

\* the years the model's days fall in
Years == 2019..2027
\* 23:59:59.999
LastMs == 86399999

Date(day, ms) == [day |-> day, ms |-> ms]

IsLeap(y) == (y % 4 = 0 /\ y % 100 # 0) \/ y % 400 = 0

DaysInYear(y) == IF IsLeap(y) THEN 366 ELSE 365

DaysInMonth(y, m) ==
    CASE m \in {1, 3, 5, 7, 8, 10, 12} -> 31
      [] m \in {4, 6, 9, 11} -> 30
      [] m = 2 -> IF IsLeap(y) THEN 29 ELSE 28

\* the day number of 1 January of year y
RECURSIVE YearStart(_)
YearStart(y) ==
    IF y = 2023 THEN 0
    ELSE IF y > 2023 THEN YearStart(y - 1) + DaysInYear(y - 1)
    ELSE YearStart(y + 1) - DaysInYear(y)

\* the day number of the first day of month m (1..12) of year y
RECURSIVE MonthStart(_, _)
MonthStart(y, m) ==
    IF m = 1 THEN YearStart(y)
    ELSE MonthStart(y, m - 1) + DaysInMonth(y, m - 1)

\* new Date(y, m - 1, d): a month outside 1..12 carries into the year and a
\* day outside the month carries into the following months
MakeDay(y, m, d) ==
    LET yy == y + ((m - 1) \div 12)
        mm == ((m - 1) % 12) + 1
    IN  MonthStart(yy, mm) + d - 1

YearOf(day) ==
    CHOOSE y \in Years :
        YearStart(y) <= day /\ day < YearStart(y) + DaysInYear(y)

\* getMonth() + 1
MonthOf(day) ==
    LET y == YearOf(day)
    IN  CHOOSE m \in 1..12 :
            MonthStart(y, m) <= day /\ day < MonthStart(y, m) + DaysInMonth(y, m)

\* getDate()
DayOfMonth(day) == day - MonthStart(YearOf(day), MonthOf(day)) + 1

\* getDay(): 0 is Sunday
Weekday(day) == day % 7

\* date-fns startOfWeek and endOfWeek with weekStartsOn: 1
startOfWeek(date) ==
    LET diff == (IF Weekday(date.day) < 1 THEN 7 ELSE 0) + Weekday(date.day) - 1
    IN  Date(date.day - diff, 0)

endOfWeek(date) ==
    LET diff == (IF Weekday(date.day) < 1 THEN -7 ELSE 0) + 6 - (Weekday(date.day) - 1)
    IN  Date(date.day + diff, LastMs)

startOfMonth(date) == Date(MonthStart(YearOf(date.day), MonthOf(date.day)), 0)

endOfMonth(date) ==
    LET y == YearOf(date.day)
        m == MonthOf(date.day)
    IN  Date(MonthStart(y, m) + DaysInMonth(y, m) - 1, LastMs)

startOfYear(date) == Date(YearStart(YearOf(date.day)), 0)

endOfYear(date) ==
    Date(YearStart(YearOf(date.day)) + DaysInYear(YearOf(date.day)) - 1, LastMs)

\* date-fns addMonths: the day of the month is kept, or is the last day of
\* the target month when that month is shorter; the time of day is kept
addMonths(date, amount) ==
    LET y == YearOf(date.day)
        m == MonthOf(date.day) + amount
        yy == y + ((m - 1) \div 12)
        mm == ((m - 1) % 12) + 1
        d == DayOfMonth(date.day)
        dd == IF d > DaysInMonth(yy, mm) THEN DaysInMonth(yy, mm) ELSE d
    IN  Date(MakeDay(yy, mm, dd), date.ms)

subWeeks(date, amount) == Date(date.day - 7 * amount, date.ms)
subMonths(date, amount) == addMonths(date, -amount)
subYears(date, amount) == addMonths(date, -12 * amount)

getWeekBounds(date) == [start |-> startOfWeek(date), end |-> endOfWeek(date)]
getMonthBounds(date) == [start |-> startOfMonth(date), end |-> endOfMonth(date)]
getYearBounds(date) == [start |-> startOfYear(date), end |-> endOfYear(date)]

\* mutant of getPreviousPeriodBounds: the month and year stepped back with
\* the Date setters, which carry a missing day into the next month
getPreviousPeriodBounds_Setters(period, currentDate) ==
    LET y == YearOf(currentDate.day)
        m == MonthOf(currentDate.day)
        d == DayOfMonth(currentDate.day)
    IN  CASE period = "week" -> getWeekBounds(subWeeks(currentDate, 1))
          [] period = "month" ->
                getMonthBounds(Date(MakeDay(y, m - 1, d), currentDate.ms))
          [] period = "year" ->
                getYearBounds(Date(MakeDay(y - 1, m, d), currentDate.ms))
          [] OTHER -> getWeekBounds(subWeeks(currentDate, 1))

getPreviousPeriodBounds(period, currentDate) ==
    CASE period = "week" -> getWeekBounds(subWeeks(currentDate, 1))
      [] period = "month" -> getMonthBounds(subMonths(currentDate, 1))
      [] period = "year" -> getYearBounds(subYears(currentDate, 1))
      [] OTHER -> getWeekBounds(subWeeks(currentDate, 1))

\* the Date setters carry a day that the month does not have into the next
\* month: setDate(getDate() + 7), setMonth(getMonth() + 1),
\* setFullYear(getFullYear() + 1)
getNextPeriodBounds(period, currentDate) ==
    LET y == YearOf(currentDate.day)
        m == MonthOf(currentDate.day)
        d == DayOfMonth(currentDate.day)
    IN  CASE period = "week" ->
                getWeekBounds(Date(currentDate.day + 7, currentDate.ms))
          [] period = "month" ->
                getMonthBounds(Date(MakeDay(y, m + 1, d), currentDate.ms))
          [] period = "year" ->
                getYearBounds(Date(MakeDay(y + 1, m, d), currentDate.ms))
          [] OTHER ->
                getWeekBounds(Date(currentDate.day + 7, currentDate.ms))


\* the period types that have calendar bounds
PeriodTypes == {"week", "month", "year"}

\* the days from 2023-12-25 to 2025-01-31 (a leap year and both its ends)
PeriodDays == MakeDay(2023, 12, 25)..MakeDay(2025, 1, 31)

PeriodDates == { Date(day, ms) : day \in PeriodDays, ms \in {0, 43200000, LastMs} }

GetNextPeriodBounds ==
    /\ called = "idle"
    /\ result' = getNextPeriodBounds(arg.period, arg.date)
    /\ called' = "getNextPeriodBounds"
    /\ UNCHANGED <<arg, storeVars, detectVars, zoneVars, pctVars, syncVars, asyncVars>>


---------------------------------------------------------------------------
(* Period statistics (statistics over the activities of a calendar period) *)

\* d1 <= d2 on Dates
DateLe(d1, d2) == d1.day < d2.day \/ (d1.day = d2.day /\ d1.ms <= d2.ms)

\* the indexes of the activities that filterActivitiesByDateRange keeps
filterActivitiesByDateRange(list, dateRange) ==
    { i \in 1..Len(list) :
        /\ DateLe(dateRange.start, list[i].startTime)
        /\ DateLe(list[i].startTime, dateRange.end) }

RECURSIVE SumField(_, _, _)
SumField(list, kept, field) ==
    IF kept = {} THEN 0
    ELSE LET i == CHOOSE i \in kept : TRUE
         IN  list[i][field] + SumField(list, kept \ {i}, field)

\* a + b on finite numbers
RAdd(a, b) ==
    LET n == a.n * b.d + b.n * a.d
        d == a.d * b.d
        g == GCD(Abs(n), d)
    IN  IF n = 0 THEN [n |-> 0, d |-> 1]
        ELSE [n |-> n \div g, d |-> d \div g]

RECURSIVE RSum(_)
RSum(s) == IF s = << >> THEN Num(0) ELSE RAdd(Head(s), RSum(Tail(s)))

\* `if (x)` and `x || 0` on an optional number: undefined, NaN and 0 are falsy
IsTruthyNumber(x) == IsNumber(x) /\ x.n # 0

\* mutant of SportBreakdown: an activity without distance left out of its sport
SportBreakdown_NoEmptyDistance(list, kept) ==
    LET sports == {list[i].sport : i \in {k \in kept : list[k].distanceMeters > 0}}
        of(sport) == {i \in kept : list[i].sport = sport
                                    /\ list[i].distanceMeters > 0}
    IN  [sport \in sports |->
            [count |-> Cardinality(of(sport)),
             distance |-> SumField(list, of(sport), "distanceMeters"),
             time |-> SumField(list, of(sport), "totalTimeSeconds")]]

\* the sportBreakdown object: one entry per sport met, filled by the forEach
SportBreakdown(list, kept) ==
    LET sports == {list[i].sport : i \in kept}
        of(sport) == {i \in kept : list[i].sport = sport}
    IN  [sport \in sports |->
            [count |-> Cardinality(of(sport)),
             distance |-> SumField(list, of(sport), "distanceMeters"),
             time |-> SumField(list, of(sport), "totalTimeSeconds")]]

\* aggregateActivities(periodActivities, period, dateRange), periodActivities
\* being the activities of `list` at the indexes `kept`
aggregateActivities(list, kept, period, dateRange) ==
    LET totalDistance == SumField(list, kept, "distanceMeters")
        totalTime == SumField(list, kept, "totalTimeSeconds")
        stats == [i \in 1..Len(list) |-> calculateStatistics(list[i])]
        calories == [i \in 1..Len(list) |->
                       IF i \in kept /\ list[i].calories # Absent
                       THEN list[i].calories ELSE 0]
        gains == [i \in 1..Len(list) |->
                    IF i \in kept /\ IsTruthyNumber(stats[i].elevationGain)
                    THEN stats[i].elevationGain ELSE Num(0)]
        withHR == {i \in kept : IsTruthyNumber(stats[i].averageHeartRate)}
        withCadence == {i \in kept : IsTruthyNumber(stats[i].averageCadence)}
        totalHR == RSum([i \in 1..Len(list) |->
                           IF i \in withHR THEN stats[i].averageHeartRate
                           ELSE Num(0)])
        totalCadence == RSum([i \in 1..Len(list) |->
                                IF i \in withCadence THEN stats[i].averageCadence
                                ELSE Num(0)])
    IN  [period |-> period,
         dateRange |-> dateRange,
         totalActivities |-> Cardinality(kept),
         totalDistance |-> totalDistance,
         totalTime |-> totalTime,
         totalCalories |-> SumSeq(calories),
         totalElevationGain |-> RSum(gains),
         averageSpeed |-> IF totalTime > 0 THEN Div(totalDistance, totalTime)
                          ELSE Num(0),
         averageHeartRate |->
             IF Cardinality(withHR) > 0
             THEN Div(totalHR.n, totalHR.d * Cardinality(withHR)) ELSE NoValue,
         averageCadence |->
             IF Cardinality(withCadence) > 0
             THEN Div(totalCadence.n, totalCadence.d * Cardinality(withCadence))
             ELSE NoValue,
         sportBreakdown |-> SportBreakdown(list, kept)]

calculatePeriodStats(list, period, date) ==
    LET dateRange == CASE period = "week" -> getWeekBounds(date)
                       [] period = "month" -> getMonthBounds(date)
                       [] period = "year" -> getYearBounds(date)
                       [] OTHER -> getWeekBounds(date)
    IN  aggregateActivities(list,
                            filterActivitiesByDateRange(list, dateRange),
                            period, dateRange)

\* mutant of calculatePercentageChange: no change reported from a zero base
calculatePercentageChange_ZeroBase(oldValue, newValue) ==
    IF oldValue = Num(0) THEN Num(0)
    ELSE LET diff == RSub(newValue, oldValue)
         IN  Div(100 * diff.n * oldValue.d, diff.d * oldValue.n)

\* ((newValue - oldValue) / oldValue) * 100 on non-negative numbers
calculatePercentageChange(oldValue, newValue) ==
    IF oldValue = Num(0)
    THEN (IF RGt(newValue, Num(0)) THEN Num(100) ELSE Num(0))
    ELSE LET diff == RSub(newValue, oldValue)
         IN  Div(100 * diff.n * oldValue.d, diff.d * oldValue.n)

comparePeriods(list, period, currentDate) ==
    LET current == calculatePeriodStats(list, period, currentDate)
        previousDate == getPreviousPeriodBounds(period, currentDate).start
        previous == calculatePeriodStats(list, period, previousDate)
    IN  [current |-> current,
         previous |-> previous,
         changes |->
            [distance |-> calculatePercentageChange(Num(previous.totalDistance),
                                                    Num(current.totalDistance)),
             time |-> calculatePercentageChange(Num(previous.totalTime),
                                                Num(current.totalTime)),
             activities |-> calculatePercentageChange(Num(previous.totalActivities),
                                                      Num(current.totalActivities)),
             speed |-> calculatePercentageChange(previous.averageSpeed,
                                                 current.averageSpeed)]]

\* activities handed to comparePeriods in one call
MaxCompared == 2

\* the current dates comparePeriods is driven with: ends and starts of
\* months, years and weeks, the leap day, and days inside a period
CompareDates ==
    { Date(MakeDay(2024, 3, 31), 43200000), Date(MakeDay(2024, 3, 1), 0),
      Date(MakeDay(2024, 2, 29), LastMs), Date(MakeDay(2024, 1, 1), 0),
      Date(MakeDay(2024, 12, 31), LastMs), Date(MakeDay(2024, 3, 6), 43200000),
      Date(MakeDay(2024, 5, 31), 0), Date(MakeDay(2025, 1, 15), 43200000) }

\* start times at and around the ends of the period of the date, and one or
\* two periods back
CompareInstants(period, date) ==
    LET current == CASE period = "week" -> getWeekBounds(date)
                     [] period = "month" -> getMonthBounds(date)
                     [] period = "year" -> getYearBounds(date)
        back == CASE period = "week" -> 7
                  [] period = "month" -> 30
                  [] period = "year" -> 365
    IN  { current.start, current.end,
          Date(current.start.day - 1, LastMs),
          Date(current.start.day - back, 43200000),
          Date(current.start.day - back - 3, 43200000) }

ComparedActivity(startTime, distanceMeters, totalTimeSeconds) ==
    Activity(1, "Running", startTime, totalTimeSeconds, distanceMeters,
             Absent, << >>)

\* the calls of comparePeriods on one period type and current date
CompareArgs(period, date) ==
    { [activities |-> acts, period |-> period, date |-> date] :
        acts \in UNION { [1..n -> { ComparedActivity(t, w[1], w[2]) :
                                      t \in CompareInstants(period, date),
                                      w \in {<<5000, 1500>>, <<10000, 0>>,
                                             <<0, 0>>} }] :
                         n \in 0..MaxCompared } }

ComparePeriods ==
    /\ called = "idle"
    /\ result' = comparePeriods(arg.activities, arg.period, arg.date)
    /\ called' = "comparePeriods"
    /\ UNCHANGED <<arg, storeVars, detectVars, zoneVars, pctVars, syncVars, asyncVars>>


---------------------------------------------------------------------------
(* Strava synchronisation (StravaSyncService) *)

\* the activities of the athlete on Strava, and the revisions the API can
\* serve of one activity (an activity edited on Strava is served changed)
StravaIds == {11, 12}
Revisions == {1, 2}

\* the longest list GET /athlete/activities answers with
MaxListed == 2

\* StravaConverter.getActivityId: `strava-${stravaId}`
getActivityId(stravaId) == <<"strava", stravaId>>

\* StravaConverter.convertActivity, as far as the store can tell two imports
\* of one activity apart: the id and the content served
convertActivity(stravaId, revision) ==
    [id |-> getActivityId(stravaId), revision |-> revision]

activityExists_Never(table, id) == FALSE

\* ActivityService.activityExists: !!(await db.activities.get(id))
activityExists(table, id) == id \in DOMAIN table

\* ActivityService.addActivity: db.activities.add fails on a stored key, and
\* the failure is thrown again
addActivity(table, activity) ==
    IF activity.id \in DOMAIN table
    THEN [table |-> table, threw |-> TRUE]
    ELSE [table |-> [k \in DOMAIN table \cup {activity.id} |->
                        IF k = activity.id THEN activity ELSE table[k]],
          threw |-> FALSE]

\* StravaSyncService.syncActivity(stravaId) against a table and Strava's
\* side; `fails` tells whether the details request is answered by an error.
\* The streams request cannot fail the call (its error is caught).
syncActivity(table, server, stravaId, fails) ==
    LET activityId == getActivityId(stravaId)
    IN  IF activityExists(table, activityId)
        THEN [table |-> table, requests |-> << >>, threw |-> FALSE,
              value |-> table[activityId]]
        ELSE IF fails
        THEN [table |-> table, requests |-> <<stravaId>>, threw |-> TRUE,
              value |-> "request failed"]
        ELSE LET activity == convertActivity(stravaId, server[stravaId])
                 added == addActivity(table, activity)
             IN  [table |-> added.table, requests |-> <<stravaId>>,
                  threw |-> added.threw,
                  value |-> IF added.threw
                            THEN "Impossible d'ajouter l'activite"
                            ELSE activity]

\* the for loop of syncActivities from item i on; acc carries the table, the
\* requests sent and the StravaSyncResult being filled
RECURSIVE SyncEach(_, _, _, _, _)
SyncEach(server, listed, failing, i, acc) ==
    IF i > Len(listed) THEN acc
    ELSE LET stravaId == listed[i]
             exists == activityExists(acc.table, getActivityId(stravaId))
             synced == syncActivity(acc.table, server, stravaId, i \in failing)
         IN  SyncEach(server, listed, failing, i + 1,
               IF exists
               THEN [acc EXCEPT !.activitiesSkipped = @ + 1]
               ELSE IF synced.threw
               THEN [acc EXCEPT !.table = synced.table,
                                !.requests = @ \o synced.requests,
                                !.errors = Append(@, <<stravaId, synced.value>>)]
               ELSE [acc EXCEPT !.table = synced.table,
                                !.requests = @ \o synced.requests,
                                !.activitiesImported = @ + 1])

\* StravaSyncService.syncActivities: the list request, the loop, then
\* updateLastSync; a failed list request is caught by the outer catch
syncActivities(table, server, listed, failing, listFails) ==
    LET start == [table |-> table, requests |-> << >>,
                  activitiesImported |-> 0, activitiesSkipped |-> 0,
                  errors |-> << >>]
        done == SyncEach(server, listed, failing, 1, start)
    IN  IF listFails
        THEN [table |-> table, requests |-> << >>, synced |-> FALSE,
              value |-> [success |-> FALSE, activitiesImported |-> 0,
                         activitiesSkipped |-> 0,
                         errors |-> << "request failed" >>]]
        ELSE [table |-> done.table, requests |-> done.requests, synced |-> TRUE,
              value |-> [success |-> done.errors = << >>,
                         activitiesImported |-> done.activitiesImported,
                         activitiesSkipped |-> done.activitiesSkipped,
                         errors |-> done.errors]]

\* the answers of GET /athlete/activities
Listings == UNION { [1..n -> StravaIds] : n \in 0..MaxListed }

\* a call of syncActivity(stravaId), run to completion
SyncActivity(stravaId, fails) ==
    LET done == syncActivity(activities, strava, stravaId, fails)
    IN  /\ activities' = done.table
        /\ requests' = done.requests
        /\ arg' = [stravaId |-> stravaId, fails |-> fails]
        /\ result' = [threw |-> done.threw, value |-> done.value]
        /\ called' = "syncActivity"
        /\ UNCHANGED <<catalog, records, removed, now, strava, lastSync>>
        /\ UNCHANGED <<detectVars, zoneVars, pctVars, asyncVars>>

\* a call of syncActivities(options), run to completion
SyncActivities(listed, failing, listFails) ==
    LET done == syncActivities(activities, strava, listed, failing, listFails)
    IN  /\ activities' = done.table
        /\ requests' = done.requests
        /\ lastSync' = IF done.synced THEN now ELSE lastSync
        /\ arg' = [listed |-> listed, failing |-> failing,
                   listFails |-> listFails]
        /\ result' = done.value
        /\ called' = "syncActivities"
        /\ UNCHANGED <<catalog, records, removed, now, strava>>
        /\ UNCHANGED <<detectVars, zoneVars, pctVars, asyncVars>>

\* the athlete edits an activity on Strava: the API serves another revision
EditOnStrava(stravaId, revision) ==
    /\ strava[stravaId] # revision
    /\ strava' = [strava EXCEPT ![stravaId] = revision]
    /\ UNCHANGED <<storeVars, detectVars, zoneVars, pctVars>>
    /\ UNCHANGED <<fnVars, requests, lastSync, asyncVars>>


---------------------------------------------------------------------------
(* Period statistics applied to one list of activities *)

\* activities in one list handed to calculatePeriodStats
MaxAggregated == 2

\* the dates the period is taken around
AggregateDates ==
    { Date(MakeDay(2024, 3, 6), 43200000), Date(MakeDay(2024, 2, 29), LastMs),
      Date(MakeDay(2024, 12, 30), 0), Date(MakeDay(2025, 1, 1), 0) }

\* start times on the two ends of the period of the date, right before and
\* right after it, and the date itself
AggregateInstants(period, date) ==
    LET current == CASE period = "week" -> getWeekBounds(date)
                     [] period = "month" -> getMonthBounds(date)
                     [] period = "year" -> getYearBounds(date)
    IN  { date, current.start, current.end,
          Date(current.start.day - 1, LastMs), Date(current.end.day + 1, 0) }

\* (totalTimeSeconds, distanceMeters, calories, laps) of an activity
AggregateWorkloads ==
    { <<1500, 5000, 300,
        << Lap(5, << Tp(0, 10, 120, 80, 4), Tp(60, 30, 150, Absent, 5) >>) >> >>,
      <<0, 0, Absent, << >> >> }

AggregatedActivities(period, date) ==
    { Activity(1, sport, t, w[1], w[2], w[3], w[4]) :
        sport \in {"Running", "Cycling"},
        t \in AggregateInstants(period, date),
        w \in AggregateWorkloads }

\* the calls of calculatePeriodStats on one period type and date
PeriodStatsArgs(period, date) ==
    { [activities |-> acts, period |-> period, date |-> date] :
        acts \in UNION { [1..n -> AggregatedActivities(period, date)] :
                         n \in 0..MaxAggregated } }

CalculatePeriodStats ==
    /\ called = "idle"
    /\ result' = calculatePeriodStats(arg.activities, arg.period, arg.date)
    /\ called' = "calculatePeriodStats"
    /\ UNCHANGED <<arg, storeVars, detectVars, zoneVars, pctVars, syncVars, asyncVars>>


---------------------------------------------------------------------------
(* Evolution of a metric over periods, and its trend *)

\* a / b on finite numbers, as JavaScript divides: x/0 is an infinity of the
\* sign of x, and 0/0 is NaN
RQuot(a, b) ==
    LET n0 == a.n * b.d
        d0 == a.d * b.n
        n == IF d0 < 0 THEN -n0 ELSE n0
        d == Abs(d0)
        g == GCD(Abs(n), d)
    IN  IF d = 0 THEN (IF n = 0 THEN NaN
                       ELSE [n |-> IF n > 0 THEN 1 ELSE -1, d |-> 0])
        ELSE IF n = 0 THEN [n |-> 0, d |-> 1]
        ELSE [n |-> n \div g, d |-> d \div g]

\* a * k for an integer k > 0: infinities and NaN stay what they are
RTimes(a, k) == IF a.d = 0 THEN a ELSE RQuot([n |-> a.n * k, d |-> a.d], Num(1))

\* Math.abs
RAbs(a) == [n |-> Abs(a.n), d |-> a.d]

\* the mean of the values of a slice of the data
MeanValue(data) ==
    RQuot(RSum([i \in 1..Len(data) |-> data[i].value]), Num(Len(data)))

\* calculateTrend(data): the means of the two halves compared
calculateTrend(data) ==
    IF Len(data) < 2 THEN [direction |-> "stable", percentage |-> Num(0)]
    ELSE LET half == Len(data) \div 2
             firstAvg == MeanValue(SubSeq(data, 1, half))
             secondAvg == MeanValue(SubSeq(data, half + 1, Len(data)))
             change == RTimes(RQuot(RSub(secondAvg, firstAvg), firstAvg), 100)
         IN  IF RLt(RAbs(change), Num(5))
             THEN [direction |-> "stable", percentage |-> change]
             ELSE [direction |-> IF RGt(change, Num(0)) THEN "up" ELSE "down",
                   percentage |-> RAbs(change)]

\* the date of the period i periods back, set on a copy of the current date:
\* setDate, setMonth and setFullYear carry a day the month lacks into the
\* following month
PeriodDateBack(period, currentDate, i) ==
    LET y == YearOf(currentDate.day)
        m == MonthOf(currentDate.day)
        d == DayOfMonth(currentDate.day)
    IN  CASE period = "week" -> Date(currentDate.day - i * 7, currentDate.ms)
          [] period = "month" -> Date(MakeDay(y, m - i, d), currentDate.ms)
          [] period = "year" -> Date(MakeDay(y - i, m, d), currentDate.ms)

\* the value of a metric in the statistics of a period
MetricValue(stats, metric) ==
    CASE metric = "distance" -> RQuot(Num(stats.totalDistance), Num(1000))
      [] metric = "time" -> RQuot(Num(stats.totalTime), Num(3600))
      [] metric = "speed" -> RQuot(RTimes(stats.averageSpeed, 18), Num(5))
      [] metric = "heartRate" ->
            IF IsTruthyNumber(stats.averageHeartRate)
            THEN stats.averageHeartRate ELSE Num(0)
      [] metric = "activities" -> Num(stats.totalActivities)

\* getEvolutionData(activities, metric, period, numberOfPeriods) at the
\* current date the clock gives; the labels and the unit are left out
getEvolutionData(list, metric, period, numberOfPeriods, currentDate) ==
    LET data == [k \in 1..numberOfPeriods |->
                   LET periodDate ==
                           PeriodDateBack(period, currentDate, numberOfPeriods - k)
                       stats == calculatePeriodStats(list, period, periodDate)
                   IN  [date |-> stats.dateRange.start,
                        value |-> MetricValue(stats, metric)]]
        trend == calculateTrend(data)
    IN  [type |-> metric, data |-> data, trend |-> trend.direction,
         trendPercentage |-> trend.percentage]

\* the longest series asked of getEvolutionData
MaxPeriods == 3

Metrics == {"distance", "time", "speed", "heartRate", "activities"}

\* current dates: the days from 25 March to 5 April 2024, the leap day, the
\* last day of a year and the first of the next, taken at noon
EvolutionDates ==
    { Date(day, 43200000) :
        day \in (MakeDay(2024, 3, 25)..MakeDay(2024, 4, 5))
                \cup {MakeDay(2024, 2, 29), MakeDay(2024, 12, 31),
                      MakeDay(2025, 1, 1)} }

EvolutionActivities ==
    { << >>,
      << Activity(1, "Running", Date(MakeDay(2024, 3, 15), 0), 1500, 5000, 300,
                  << Lap(5, << Tp(0, 10, 120, 80, 4) >>) >>),
         Activity(2, "Running", Date(MakeDay(2024, 2, 10), 0), 3000, 8000, 300,
                  << >>) >> }

GetEvolutionData ==
    /\ called = "idle"
    /\ result' = getEvolutionData(arg.activities, arg.metric, arg.period,
                                  arg.numberOfPeriods, arg.date)
    /\ called' = "getEvolutionData"
    /\ UNCHANGED <<arg, storeVars, detectVars, zoneVars, pctVars, syncVars, asyncVars>>

\* the longest series handed to calculateTrend, and the values of its points
MaxPoints == 4

TrendValues == {0, 19, 20, 21, 40}

TrendSeries ==
    UNION { [1..n -> {[value |-> Num(v)] : v \in TrendValues}] :
            n \in 0..MaxPoints }

CalculateTrend ==
    /\ called = "idle"
    /\ result' = calculateTrend(arg)
    /\ called' = "calculateTrend"
    /\ UNCHANGED <<arg, storeVars, detectVars, zoneVars, pctVars, syncVars, asyncVars>>


---------------------------------------------------------------------------
(* Time in zones (getZoneForHeartRate, calculateTimeInZones) *)

\* what the call ends with when it reads zones[4].maxHR of a list of fewer
\* than five zones: a TypeError thrown, no zone returned
TypeError == -2

\* mutant of getZoneForHeartRate: a heart rate outside every zone has no zone
getZoneForHeartRate_NoClamp(heartRate, zones) ==
    LET matching == {i \in 1..Len(zones) :
                        heartRate >= zones[i].minHR /\ heartRate <= zones[i].maxHR}
    IN  IF matching # {}
        THEN zones[CHOOSE i \in matching : \A j \in matching : i <= j].zone
        ELSE NoZone

\* getZoneForHeartRate(heartRate, zones): the first zone of the list that
\* contains the heart rate, else zone 5 above zones[4], else zone 1 below
\* zones[0], else null
getZoneForHeartRate(heartRate, zones) ==
    LET matching == {i \in 1..Len(zones) :
                        heartRate >= zones[i].minHR /\ heartRate <= zones[i].maxHR}
    IN  IF matching # {}
        THEN zones[CHOOSE i \in matching : \A j \in matching : i <= j].zone
        ELSE IF Len(zones) < 5 THEN TypeError
        ELSE IF heartRate > zones[5].maxHR THEN 5
        ELSE IF heartRate < zones[1].minHR THEN 1
        ELSE NoZone

\* mutant of Intervals: the trackpoints of all laps taken as one sequence
Intervals_AcrossLaps(laps) ==
    LET all == AllTrackpoints(laps)
    IN  [i \in 1..(IF Len(all) = 0 THEN 0 ELSE Len(all) - 1) |->
           [hr |-> all[i].heartRate, duration |-> all[i + 1].time - all[i].time]]

\* the { hr, duration } entries collected lap by lap: one per trackpoint that
\* has a next trackpoint in its lap
RECURSIVE Intervals(_)
Intervals(laps) ==
    IF laps = << >> THEN << >>
    ELSE LET tps == Head(laps).trackpoints
         IN  [i \in 1..(IF Len(tps) = 0 THEN 0 ELSE Len(tps) - 1) |->
                [hr |-> tps[i].heartRate,
                 duration |-> tps[i + 1].time - tps[i].time]]
             \o Intervals(Tail(laps))

\* the bucket an entry adds its duration to: a zone, or 0 for `unknown`
Bucket(hr, zones) ==
    IF ~Truthy(hr) THEN 0
    ELSE LET zone == getZoneForHeartRate(hr, zones)
         IN  IF zone = NoZone THEN 0 ELSE zone

\* calculateTimeInZones(activity, zones)
calculateTimeInZones(activity, zones) ==
    LET entries == Intervals(activity.laps)
        buckets == [i \in 1..Len(entries) |-> Bucket(entries[i].hr, zones)]
        time(bucket) ==
            SumSeq([i \in 1..Len(entries) |->
                      IF buckets[i] = bucket THEN entries[i].duration ELSE 0])
    IN  IF \E i \in 1..Len(entries) : buckets[i] = TypeError THEN TypeError
        ELSE ZoneDistribution(time(1), time(2), time(3), time(4), time(5),
                              time(0))

\* zones handed to the two functions: computed by defineZones, and manual
\* ones with gaps, with overlaps, and with fewer than five zones
ManualZones(bounds) ==
    [z \in 1..Len(bounds) |->
        HeartRateZone(z, ZONE_NAMES[z], bounds[z][1], bounds[z][2],
                      ZONE_PERCENTAGES[z].min, ZONE_PERCENTAGES[z].max)]

ZoneLists ==
    { defineZones(m, Absent, "age") : m \in {175, 190, 200} }
    \cup { defineZones(m, 60, "karvonen") : m \in {175, 190} }
    \cup { ManualZones(<< <<100, 110>>, <<115, 130>>, <<135, 150>>,
                          <<155, 170>>, <<175, 190>> >>),
           ManualZones(<< <<100, 125>>, <<120, 140>>, <<140, 160>>,
                          <<150, 175>>, <<170, 190>> >>),
           ManualZones(<< <<100, 140>> >>) }

\* the heart rates getZoneForHeartRate is asked about
MaxHeartRate == 230

GetZoneForHeartRate ==
    /\ called = "idle"
    /\ result' = getZoneForHeartRate(arg.heartRate, arg.zones)
    /\ called' = "getZoneForHeartRate"
    /\ UNCHANGED <<arg, storeVars, detectVars, zoneVars, pctVars, syncVars, asyncVars>>

\* trackpoints in one activity handed to calculateTimeInZones
MaxZonePoints == 3

\* the time of the i-th trackpoint of an activity, in seconds
PointTimes == << 0, 10, 40, 100, 190, 200 >>

PointHeartRates == {Absent, 0, 90, 112, 145, 210}

ZonePointLists ==
    UNION { { [i \in 1..n |-> Tp(PointTimes[i], Absent, hrs[i], Absent, Absent)] :
                hrs \in [1..n -> PointHeartRates] } :
            n \in 0..MaxZonePoints }

ZoneActivities ==
    { Activity(1, "Running", 1, 3000, 10000, Absent, laps) :
        laps \in { << >> } \cup UNION { SplitLaps(tps) : tps \in ZonePointLists } }

CalculateTimeInZones ==
    /\ called = "idle"
    /\ result' = calculateTimeInZones(arg.activity, arg.zones)
    /\ called' = "calculateTimeInZones"
    /\ UNCHANGED <<arg, storeVars, detectVars, zoneVars, pctVars, syncVars, asyncVars>>


---------------------------------------------------------------------------
(* Training efficiency (calculateTrainingEfficiency) *)

TrainingTypes ==
    {"recovery", "endurance", "tempo", "threshold", "interval", "mixed",
     "unknown"}

\* idealDistributions: the entries of each type's object, in the order
\* Object.entries gives them
idealDistributions ==
    [recovery |-> << <<"zone1", 60>>, <<"zone2", 40>> >>,
     endurance |-> << <<"zone2", 70>>, <<"zone3", 20>>, <<"zone1", 10>> >>,
     tempo |-> << <<"zone3", 60>>, <<"zone2", 25>>, <<"zone4", 15>> >>,
     threshold |-> << <<"zone4", 60>>, <<"zone3", 30>>, <<"zone2", 10>> >>,
     interval |-> << <<"zone5", 40>>, <<"zone4", 40>>, <<"zone3", 20>> >>,
     mixed |-> << <<"zone2", 30>>, <<"zone3", 30>>, <<"zone4", 20>>,
                  <<"zone5", 10>>, <<"zone1", 10>> >>,
     unknown |-> << >>]

\* mutant of MathRound: the fraction dropped
MathRound_Floor(n, d) == n \div d

\* Math.round(n / d) for n >= 0 and d > 0: the nearest integer, a half going up
MathRound(n, d) == (2 * n + d) \div (2 * d)

\* calculateTrainingEfficiency(percentages, trainingType)
calculateTrainingEfficiency(percentages, trainingType) ==
    LET ideal == idealDistributions[trainingType]
        totalDiff == SumSeq([i \in 1..Len(ideal) |->
                               Abs(percentages[ideal[i][1]] - ideal[i][2])])
        count == Len(ideal)
    IN  IF count = 0 THEN 50
        ELSE IF totalDiff >= 100 * count THEN 0
        ELSE MathRound(100 * count - totalDiff, count)

\* the share of one bucket in the percentages handed over
EfficiencyShares == {0, 35, 100}

CalculateTrainingEfficiency ==
    /\ called = "idle"
    /\ result' = calculateTrainingEfficiency(arg.percentages, arg.trainingType)
    /\ called' = "calculateTrainingEfficiency"
    /\ UNCHANGED <<arg, storeVars, detectVars, zoneVars, pctVars, syncVars, asyncVars>>


---------------------------------------------------------------------------
(* detectAndSaveRecords calls that interleave at their awaits *)

\* the activities whose detections race
MaxRacing == 2

RaceIds == 1..MaxRacing

RaceProfiles ==
    { <<"Running", 10, 1200, 5000, 300, << >> >>,
      <<"Running", 30, 2400, 8000, 250, << >> >>,
      <<"Cycling", 40, 1300, 8000, 400, << >> >> }

\* detectAndSaveRecords(activity) up to its first put: `await
\* this.getRecordsBySport(activity.sport)` resolves with the store as it is
\* now, and detectRecords runs on that list.  `returned` keeps the calls that
\* had returned by then.
ReadExisting(id) ==
    /\ id \in DOMAIN activities /\ id \notin DOMAIN calls
    /\ LET activity == activities[id]
           existingRecords == getRecordsBySport(activity.sport)
           detections == SelectSeq(detectRecords(activity, existingRecords),
                                   IsRecord)
       IN  calls' = [c \in DOMAIN calls \cup {id} |->
                       IF c # id THEN calls[c]
                       ELSE [at |-> IF detections = << >> THEN "returned"
                                    ELSE "putting",
                             existingRecords |-> existingRecords,
                             detections |-> detections,
                             newRecords |-> << >>,
                             returned |-> {d \in DOMAIN calls :
                                              calls[d].at = "returned"}]]
    /\ UNCHANGED <<storeVars, detectVars, zoneVars, pctVars>>
    /\ UNCHANGED <<fnVars, syncVars, hook, pending>>

\* one turn of the loop: createRecordFromDetection, `await
\* recordsDb.records.put(record)`, newRecords.push(record); the call returns
\* after the last one
PutRecord(id) ==
    /\ id \in DOMAIN calls /\ calls[id].at = "putting"
    /\ LET record == createRecordFromDetection(Head(calls[id].detections),
                                               activities[id])
           rest == Tail(calls[id].detections)
       IN  /\ records' = Put(records, record)
           /\ calls' = [calls EXCEPT
                          ![id].detections = rest,
                          ![id].newRecords = Append(@, record),
                          ![id].at = IF rest = << >> THEN "returned"
                                     ELSE "putting"]
    /\ UNCHANGED <<catalog, activities, removed, now>>
    /\ UNCHANGED <<detectVars, zoneVars, pctVars>>
    /\ UNCHANGED <<fnVars, syncVars, hook, pending>>


\* detectAndSaveRecords(activity) called while no other call is between its
\* read and its return
SerialDetect(id) ==
    /\ \A c \in DOMAIN calls : calls[c].at = "returned"
    /\ ReadExisting(id)

SerialProfiles ==
    { <<"Running", 10, 1200, 5000, 300, << >> >>,
      <<"Running", 20, 3000, 10000, Absent,
        << Lap(5, << Tp(0, 10, 120, Absent, 4), Tp(60, 30, 150, Absent, 5) >>) >> >>,
      <<"Running", 50, 1100, 5200, 350,
        << Lap(6, << Tp(0, 10, 120, Absent, 5), Tp(60, 50, 150, Absent, 6) >>) >> >>,
      <<"Cycling", 40, 1300, 8000, 400, << >> >> }


---------------------------------------------------------------------------
(* The commentary hook (hooks/useCommentaryGenerator) *)

\* generate calls in one life of the hook
MaxGenerations == 3

CommentedActivities == {"A", "B"}

\* abortControllerRef.current when no controller is held
NoController == 0

\* the commentary state before any result, and the error state without error
NoCommentary == [activity |-> "none", generation |-> 0]

NoError == "null"

\* the CommentaryResult a generate call obtains for its activity
CommentaryOf(activity, generation) ==
    [activity |-> activity, generation |-> generation]

\* the `finally` of generate: setIsGenerating(false) and
\* abortControllerRef.current = null, whichever call reaches it
Finally(state) == [state EXCEPT !.isGenerating = FALSE, !.controller = NoController]

\* generate(activity, params), up to its return on a cache hit or up to
\* `await checkConnection()`.  The controller held is aborted and replaced;
\* its signal is handed to no request.
Generate(activity) ==
    /\ hook.started < MaxGenerations
    /\ LET generation == hook.started + 1
           entered == [hook EXCEPT
                         !.started = generation,
                         !.aborted = IF hook.controller # NoController
                                     THEN @ \cup {hook.controller} ELSE @,
                         !.controller = generation,
                         !.error = NoError,
                         !.isGenerating = TRUE,
                         !.streaming = TRUE]
       IN  IF activity \in DOMAIN hook.cache
           THEN /\ hook' = Finally([entered EXCEPT
                                      !.commentary = hook.cache[activity],
                                      !.streaming = FALSE])
                /\ UNCHANGED pending
           ELSE /\ hook' = entered
                /\ pending' = [g \in DOMAIN pending \cup {generation} |->
                                 IF g = generation
                                 THEN [activity |-> activity, at |-> "checkConnection"]
                                 ELSE pending[g]]
    /\ UNCHANGED <<storeVars, detectVars, zoneVars, pctVars>>
    /\ UNCHANGED <<fnVars, syncVars, calls>>

Without(generation) == [g \in DOMAIN pending \ {generation} |-> pending[g]]

\* `await checkConnection()` resolves: the call goes on to request the
\* commentary, or throws into its catch and finally
ConnectionChecked(generation, isConnected) ==
    /\ generation \in DOMAIN pending
    /\ pending[generation].at = "checkConnection"
    /\ IF isConnected
       THEN /\ pending' = [pending EXCEPT ![generation].at = "generateCommentary"]
            /\ UNCHANGED hook
       ELSE /\ pending' = Without(generation)
            /\ hook' = Finally([hook EXCEPT !.error = "not connected",
                                            !.streaming = FALSE])
    /\ UNCHANGED <<storeVars, detectVars, zoneVars, pctVars>>
    /\ UNCHANGED <<fnVars, syncVars, calls>>

\* `await generateCommentaryWithStreaming(...)` (or generateCommentary)
\* settles: saveToCache, setCommentary and the final streaming state, or the
\* catch; then the finally
Settle(generation, fulfilled) ==
    /\ generation \in DOMAIN pending
    /\ pending[generation].at = "generateCommentary"
    /\ pending' = Without(generation)
    /\ LET activity == pending[generation].activity
           commentary == CommentaryOf(activity, generation)
       IN  IF fulfilled
           THEN hook' = Finally([hook EXCEPT
                                   !.cache = [a \in DOMAIN hook.cache \cup {activity} |->
                                                IF a = activity THEN commentary
                                                ELSE hook.cache[a]],
                                   !.commentary = commentary,
                                   !.streaming = FALSE])
           ELSE hook' = Finally([hook EXCEPT !.error = "failed",
                                             !.streaming = FALSE])
    /\ UNCHANGED <<storeVars, detectVars, zoneVars, pctVars>>
    /\ UNCHANGED <<fnVars, syncVars, calls>>

\* cancel()
Cancel ==
    /\ hook' = [hook EXCEPT
                  !.aborted = IF hook.controller # NoController
                              THEN @ \cup {hook.controller} ELSE @,
                  !.controller = NoController,
                  !.isGenerating = FALSE,
                  !.streaming = FALSE]
    /\ UNCHANGED pending
    /\ UNCHANGED <<storeVars, detectVars, zoneVars, pctVars>>
    /\ UNCHANGED <<fnVars, syncVars, calls>>


---------------------------------------------------------------------------
(* Specifications *)

DetectIdle ==
    /\ dAct = 0 /\ dExisting = << >> /\ dResults = << >>
    /\ dCreated = << >> /\ dSecond = << >> /\ dPhase = "idle"

ZoneIdle == ZoneInit

FnIdle == arg = 0 /\ result = 0 /\ called = "idle"

SyncIdle == strava = << >> /\ requests = << >> /\ lastSync = Absent

AsyncIdle == calls = << >> /\ hook = << >> /\ pending = << >>

AuxIdle == FnIdle /\ SyncIdle /\ AsyncIdle

PctIdle ==
    /\ zDist = ZoneDistribution(0, 0, 0, 0, 0, 0)
    /\ zPct = ZoneDistribution(0, 0, 0, 0, 0, 0)
    /\ zType = "idle" /\ zPhase = "idle"

\* the record and activity stores under serial service calls
Init == StoreInit /\ DetectIdle /\ ZoneIdle /\ PctIdle /\ AuxIdle

Next ==
    \/ \E id \in ActIds, p \in Profiles : AddActivity(id, p)
    \/ \E id \in ActIds : DetectAndSaveRecords(id)
    \/ \E id \in ActIds : MarkRecordsAsSeen(id)
    \/ \E id \in ActIds : DeleteActivity(id)

Spec == Init /\ [][Next]_vars

StoreIdle ==
    /\ catalog = << >> /\ activities = EmptyTable /\ records = EmptyTable
    /\ removed = {} /\ now = 0

\* the detector applied to one activity and one list of stored records
InitDetect == StoreIdle /\ DetectInit /\ ZoneIdle /\ PctIdle /\ AuxIdle

NextDetect ==
    \/ RunDetect
    \/ \E order \in {"store", "append", "prepend"} : RunAgain(order)

SpecDetect == InitDetect /\ [][NextDetect]_vars

\* TrainingZonesService under any sequence of configuration calls
InitZones == StoreIdle /\ DetectIdle /\ ZoneInit /\ PctIdle /\ AuxIdle

NextZones ==
    \/ \E age \in Ages : ConfigureByAge(age)
    \/ \E age \in Ages, restingHR \in RestingHRs :
            ConfigureByKarvonen(age, restingHR)
    \/ \E maxHR \in MaxHRs, customZones \in CustomZoneArgs :
            ConfigureManually(maxHR, customZones)
    \/ ResetToDefaults

SpecZones == InitZones /\ [][NextZones]_vars

\* the analysis of one zone distribution
InitPct ==
    /\ StoreIdle /\ DetectIdle /\ ZoneIdle /\ AuxIdle
    /\ zDist \in Distributions
    /\ zPct = ZoneDistribution(0, 0, 0, 0, 0, 0)
    /\ zType = "idle" /\ zPhase = "distribution"

NextPct ==
    \/ CalculateZonePercentages
    \/ DetermineTrainingType

SpecPct == InitPct /\ [][NextPct]_vars

\* determineTrainingType applied to one ZonePercentages value
InitType ==
    /\ StoreIdle /\ DetectIdle /\ ZoneIdle /\ AuxIdle
    /\ zDist = ZoneDistribution(0, 0, 0, 0, 0, 0)
    /\ zPct \in PercentageInputs
    /\ zType = "idle" /\ zPhase = "percentages"

NextType == DetermineTrainingType

SpecType == InitType /\ [][NextType]_vars

\* getDominantZone applied to one ZoneDistribution
InitDominant ==
    /\ StoreIdle /\ DetectIdle /\ ZoneIdle /\ PctIdle /\ SyncIdle /\ AsyncIdle
    /\ arg \in Distributions /\ result = 0 /\ called = "idle"

NextDominant == GetDominantZone

SpecDominant == InitDominant /\ [][NextDominant]_vars


\* defineZones with the age method applied to one maximum heart rate
InitDefine ==
    /\ StoreIdle /\ DetectIdle /\ ZoneIdle /\ PctIdle /\ SyncIdle /\ AsyncIdle
    /\ arg \in DefineMaxHRs /\ result = 0 /\ called = "idle"

NextDefine == DefineZonesByAge

SpecDefine == InitDefine /\ [][NextDefine]_vars


\* calculateStatistics applied to one activity
InitStats ==
    /\ StoreIdle /\ DetectIdle /\ ZoneIdle /\ PctIdle /\ SyncIdle /\ AsyncIdle
    /\ arg \in StatActivities /\ result = 0 /\ called = "idle"

NextStats == CalculateStatistics

SpecStats == InitStats /\ [][NextStats]_vars


\* getNextPeriodBounds applied to one period type and one date
InitNextPeriod ==
    /\ StoreIdle /\ DetectIdle /\ ZoneIdle /\ PctIdle /\ SyncIdle /\ AsyncIdle
    /\ arg \in [period : PeriodTypes, date : PeriodDates]
    /\ result = 0 /\ called = "idle"

NextNextPeriod == GetNextPeriodBounds

SpecNextPeriod == InitNextPeriod /\ [][NextNextPeriod]_vars


\* comparePeriods applied to one list of activities, period type and date
InitCompare ==
    /\ StoreIdle /\ DetectIdle /\ ZoneIdle /\ PctIdle /\ SyncIdle /\ AsyncIdle
    /\ \E period \in PeriodTypes, date \in CompareDates :
          arg \in CompareArgs(period, date)
    /\ result = 0 /\ called = "idle"

NextCompare == ComparePeriods

SpecCompare == InitCompare /\ [][NextCompare]_vars


\* Strava synchronisation: sync calls made one after another (the page
\* disables its buttons while a sync runs), and edits on Strava in between
InitSync ==
    /\ StoreIdle /\ DetectIdle /\ ZoneIdle /\ PctIdle /\ FnIdle /\ AsyncIdle
    /\ strava \in [StravaIds -> Revisions]
    /\ requests = << >> /\ lastSync = Absent

NextSync ==
    \/ \E stravaId \in StravaIds, fails \in BOOLEAN :
          SyncActivity(stravaId, fails)
    \/ \E listed \in Listings, listFails \in BOOLEAN :
          \E failing \in SUBSET (1..Len(listed)) :
             SyncActivities(listed, failing, listFails)
    \/ \E stravaId \in StravaIds, revision \in Revisions :
          EditOnStrava(stravaId, revision)

SpecSync == InitSync /\ [][NextSync]_vars


\* calculatePeriodStats applied to one list of activities, period type and date
InitPeriodStats ==
    /\ StoreIdle /\ DetectIdle /\ ZoneIdle /\ PctIdle /\ SyncIdle /\ AsyncIdle
    /\ \E period \in PeriodTypes, date \in AggregateDates :
          arg \in PeriodStatsArgs(period, date)
    /\ result = 0 /\ called = "idle"

NextPeriodStats == CalculatePeriodStats

SpecPeriodStats == InitPeriodStats /\ [][NextPeriodStats]_vars


\* getEvolutionData applied at one current date
InitEvolution ==
    /\ StoreIdle /\ DetectIdle /\ ZoneIdle /\ PctIdle /\ SyncIdle /\ AsyncIdle
    /\ arg \in [activities : EvolutionActivities, metric : Metrics,
                period : PeriodTypes, numberOfPeriods : 0..MaxPeriods,
                date : EvolutionDates]
    /\ result = 0 /\ called = "idle"

NextEvolution == GetEvolutionData

SpecEvolution == InitEvolution /\ [][NextEvolution]_vars

\* calculateTrend applied to one series
InitTrend ==
    /\ StoreIdle /\ DetectIdle /\ ZoneIdle /\ PctIdle /\ SyncIdle /\ AsyncIdle
    /\ arg \in TrendSeries
    /\ result = 0 /\ called = "idle"

NextTrend == CalculateTrend

SpecTrend == InitTrend /\ [][NextTrend]_vars


\* getZoneForHeartRate applied to one heart rate and list of zones
InitZoneFor ==
    /\ StoreIdle /\ DetectIdle /\ ZoneIdle /\ PctIdle /\ SyncIdle /\ AsyncIdle
    /\ arg \in [heartRate : 1..MaxHeartRate, zones : ZoneLists]
    /\ result = 0 /\ called = "idle"

NextZoneFor == GetZoneForHeartRate

SpecZoneFor == InitZoneFor /\ [][NextZoneFor]_vars

\* calculateTimeInZones applied to one activity and list of zones
InitTimeInZones ==
    /\ StoreIdle /\ DetectIdle /\ ZoneIdle /\ PctIdle /\ SyncIdle /\ AsyncIdle
    /\ arg \in [activity : ZoneActivities, zones : ZoneLists]
    /\ result = 0 /\ called = "idle"

NextTimeInZones == CalculateTimeInZones

SpecTimeInZones == InitTimeInZones /\ [][NextTimeInZones]_vars


\* calculateTrainingEfficiency applied to one set of percentages and type
InitEfficiency ==
    /\ StoreIdle /\ DetectIdle /\ ZoneIdle /\ PctIdle /\ SyncIdle /\ AsyncIdle
    /\ arg \in [percentages :
                   [{"zone1", "zone2", "zone3", "zone4", "zone5", "unknown"}
                       -> EfficiencyShares],
                trainingType : TrainingTypes]
    /\ result = 0 /\ called = "idle"

NextEfficiency == CalculateTrainingEfficiency

SpecEfficiency == InitEfficiency /\ [][NextEfficiency]_vars


\* detectAndSaveRecords called for each of the stored activities, the calls
\* taking their turns at each await in any order
InitRace ==
    /\ catalog \in [RaceIds -> RaceProfiles]
    /\ activities = [id \in RaceIds |->
                       Activity(id, catalog[id][1], catalog[id][2], catalog[id][3],
                                catalog[id][4], catalog[id][5], catalog[id][6])]
    /\ records = EmptyTable /\ removed = {} /\ now = 0
    /\ DetectIdle /\ ZoneIdle /\ PctIdle /\ FnIdle /\ SyncIdle
    /\ calls = << >> /\ hook = << >> /\ pending = << >>

NextRace ==
    \/ \E id \in RaceIds : ReadExisting(id)
    \/ \E id \in RaceIds : PutRecord(id)

SpecRace == InitRace /\ [][NextRace]_vars


\* detectAndSaveRecords called for stored activities one call after the other,
\* each activity at most once; no record is deleted
InitSerial ==
    /\ catalog \in [ActIds -> SerialProfiles]
    /\ activities = [id \in ActIds |->
                       Activity(id, catalog[id][1], catalog[id][2], catalog[id][3],
                                catalog[id][4], catalog[id][5], catalog[id][6])]
    /\ records = EmptyTable /\ removed = {} /\ now = 0
    /\ DetectIdle /\ ZoneIdle /\ PctIdle /\ FnIdle /\ SyncIdle
    /\ calls = << >> /\ hook = << >> /\ pending = << >>

NextSerial ==
    \/ \E id \in ActIds : SerialDetect(id)
    \/ \E id \in ActIds : PutRecord(id)

SpecSerial == InitSerial /\ [][NextSerial]_vars


\* the hook after its first render, then generate and cancel called at any
\* moment while earlier generate calls wait at their awaits
InitHook ==
    /\ StoreIdle /\ DetectIdle /\ ZoneIdle /\ PctIdle /\ FnIdle /\ SyncIdle
    /\ calls = << >> /\ pending = << >>
    /\ hook = [commentary |-> NoCommentary, isGenerating |-> FALSE,
               error |-> NoError, streaming |-> FALSE,
               cache |-> << >>, controller |-> NoController,
               aborted |-> {}, started |-> 0]

NextHook ==
    \/ \E activity \in CommentedActivities : Generate(activity)
    \/ \E generation \in 1..MaxGenerations, isConnected \in BOOLEAN :
          ConnectionChecked(generation, isConnected)
    \/ \E generation \in 1..MaxGenerations, fulfilled \in BOOLEAN :
          Settle(generation, fulfilled)
    \/ Cancel

SpecHook == InitHook /\ [][NextHook]_vars


---------------------------------------------------------------------------
(* Claims about the record store *)

SameTriple(r, o) == r.type = o.type /\ r.category = o.category /\ r.sport = o.sport

\* value v is strictly better than value w for records of this type
StrictlyBetter(type, v, w) == IF type = "time" THEN RLt(v, w) ELSE RGt(v, w)

\* the records a step wrote: the rows that are new or differ from before
Written(k) == k \notin DOMAIN records \/ records'[k] # records[k]

\* C1: a detectAndSaveRecords call persists a record for a (type, category,
\* sport) triple only if its value is strictly better (lower for 'time',
\* higher otherwise) than every record stored for that triple before the call.
C1_PersistedOnlyIfBestBeaten ==
    [][now' # now =>
        \A k \in DOMAIN records' :
            Written(k) =>
                \A o \in DOMAIN records :
                    SameTriple(records'[k], records[o]) =>
                        StrictlyBetter(records'[k].type, records'[k].value,
                                       records[o].value)]_vars

\* C3: no stored record belongs to an activity that has been deleted.
C3_NoRecordOfDeletedActivity ==
    \A k \in DOMAIN records : records[k].activityId \notin removed

\* C4: detectAndSaveRecords is append-only: every record stored before the
\* call is stored after it with value, previousValue, improvement, createdAt
\* and isNew unchanged.
C4_DetectIsAppendOnly ==
    [][now' # now =>
        \A k \in DOMAIN records :
            /\ k \in DOMAIN records'
            /\ records'[k].value = records[k].value
            /\ records'[k].previousValue = records[k].previousValue
            /\ records'[k].improvement = records[k].improvement
            /\ records'[k].createdAt = records[k].createdAt
            /\ records'[k].isNew = records[k].isNew]_vars

---------------------------------------------------------------------------
(* Claims about the detector *)

\* the stored records a detection pass looks at: same type and sport and,
\* except for calories, same category
Matches(type, category) ==
    {i \in 1..Len(dExisting) :
        /\ dExisting[i].type = type
        /\ dExisting[i].sport = dAct.sport
        /\ (type = "calories" \/ dExisting[i].category = category)}

HasPrior(type, category) == Matches(type, category) # {}

\* the value of the record the pass compares with: the first one in the list
PriorValue(type, category) ==
    LET m == Matches(type, category)
    IN  dExisting[CHOOSE i \in m : \A j \in m : i <= j].value

Emitted(type, category) ==
    {i \in 1..Len(dResults) :
        dResults[i].recordType = type /\ dResults[i].category = category}

Detected == dPhase \in {"detected", "again"}

\* C2: detecting again, for the same activity, against a list that holds the
\* stored records together with the records just created returns nothing.
C2_SecondRunReturnsNothing == dPhase = "again" => dSecond = << >>

InBand(band) ==
    dAct.distanceMeters >= band.min /\ dAct.distanceMeters <= band.max

\* C5: for each of the five distance bands, a 'time' detection for the band
\* is returned exactly when the distance lies in the band (bounds included)
\* and there is no stored (time, band, sport) record or totalTimeSeconds is
\* strictly less than the stored record's value; its value is the time and,
\* with a stored record, its improvement is stored value - time.  A distance
\* in no band yields no time detection.
C5_TimeRecordsInverted ==
    Detected =>
        /\ \A k \in 1..Len(DISTANCE_CATEGORIES) :
            LET band == DISTANCE_CATEGORIES[k]
                due == /\ InBand(band)
                       /\ \/ ~HasPrior("time", band.category)
                          \/ dAct.totalTimeSeconds * PriorValue("time", band.category).d
                                < PriorValue("time", band.category).n
                out == Emitted("time", band.category)
            IN  /\ due <=> out # {}
                /\ Cardinality(out) <= 1
                /\ \A i \in out :
                    /\ dResults[i].value = Num(dAct.totalTimeSeconds)
                    /\ HasPrior("time", band.category) =>
                         /\ dResults[i].previousValue = PriorValue("time", band.category)
                         /\ dResults[i].improvement =
                              RSub(PriorValue("time", band.category),
                                   Num(dAct.totalTimeSeconds))
        /\ \A i \in 1..Len(dResults) :
              dResults[i].recordType = "time" =>
                  \E k \in 1..Len(DISTANCE_CATEGORIES) :
                      /\ DISTANCE_CATEGORIES[k].category = dResults[i].category
                      /\ InBand(DISTANCE_CATEGORIES[k])

\* the example of the claim: stored 5km time 1200 s, new time 1100 s in the
\* band: a record with improvement 100
C5_Witness ==
    /\ Detected
    /\ dAct.totalTimeSeconds = 1100
    /\ HasPrior("time", "5km") /\ PriorValue("time", "5km") = Num(1200)
    /\ \E i \in Emitted("time", "5km") : dResults[i].improvement = Num(100)

\* C6 as stated: with a stored record the improvement is new - previous
\* (previous - new for time); without one it is the new value, for every
\* record type including time.
C6_ImprovementAsStated ==
    Detected =>
        \A i \in 1..Len(dResults) :
            LET r == dResults[i] IN
            IF HasPrior(r.recordType, r.category)
            THEN r.improvement =
                    (IF r.recordType = "time"
                     THEN RSub(PriorValue(r.recordType, r.category), r.value)
                     ELSE RSub(r.value, PriorValue(r.recordType, r.category)))
            ELSE r.improvement = r.value

\* C6 amended: as above, but a time detection without a stored record has
\* improvement 0.
C6_Improvement ==
    Detected =>
        \A i \in 1..Len(dResults) :
            LET r == dResults[i] IN
            IF HasPrior(r.recordType, r.category)
            THEN /\ r.previousValue = PriorValue(r.recordType, r.category)
                 /\ r.improvement =
                      (IF r.recordType = "time"
                       THEN RSub(PriorValue(r.recordType, r.category), r.value)
                       ELSE RSub(r.value, PriorValue(r.recordType, r.category)))
            ELSE /\ r.previousValue = NoValue
                 /\ r.improvement = (IF r.recordType = "time" THEN Num(0) ELSE r.value)

\* a run that returns a first time record, a first record of another type
\* and a record that beats a stored one
C6_Witness ==
    /\ Detected
    /\ \E i \in 1..Len(dResults) :
          /\ dResults[i].recordType = "time"
          /\ ~HasPrior("time", dResults[i].category)
          /\ dResults[i].improvement = Num(0)
    /\ \E i \in 1..Len(dResults) :
          /\ dResults[i].recordType = "calories"
          /\ ~HasPrior("calories", "longest")
          /\ dResults[i].improvement = Num(300)
    /\ \E i \in 1..Len(dResults) :
          /\ dResults[i].recordType = "distance"
          /\ HasPrior("distance", "longest")
          /\ dResults[i].improvement = Num(500)

\* C7: every created record has the id {activityId}-{recordType}-{category}
\* and isNew = true, and the records created from one run have pairwise
\* distinct ids, so putting them never overwrites a record of the same run.
C7_CreatedIds ==
    Detected =>
        /\ Len(dCreated) = Len(dResults)
        /\ \A i \in 1..Len(dCreated) :
              /\ dCreated[i].id =
                    <<dAct.id, dResults[i].recordType, dResults[i].category>>
              /\ dCreated[i].isNew = TRUE
        /\ \A i, j \in 1..Len(dCreated) :
              dCreated[i].id = dCreated[j].id => i = j
        /\ Cardinality(DOMAIN PutAll(EmptyTable, dCreated)) = Len(dCreated)

\* a run that creates both records of category 'longest'
C7_Witness ==
    /\ Detected
    /\ \E i, j \in 1..Len(dCreated) :
          /\ dCreated[i].type = "distance" /\ dCreated[i].category = "longest"
          /\ dCreated[j].type = "calories" /\ dCreated[j].category = "longest"

---------------------------------------------------------------------------
(* Claims about the zone settings *)

\* the zones of the age formula, round(maxHR * p / 100)
AgeFormulaZones(maxHR) ==
    [z \in 1..5 |->
        HeartRateZone(z, ZONE_NAMES[z],
                      RoundPercent(maxHR, 40 + 10 * z, 0),
                      RoundPercent(maxHR, 50 + 10 * z, 0),
                      40 + 10 * z, 50 + 10 * z)]

\* the zones of the Karvonen formula, round((maxHR - rest) * p / 100 + rest)
KarvonenZones(maxHR, rest) ==
    [z \in 1..5 |->
        HeartRateZone(z, ZONE_NAMES[z],
                      RoundPercent(maxHR - rest, 40 + 10 * z, rest),
                      RoundPercent(maxHR - rest, 50 + 10 * z, rest),
                      40 + 10 * z, 50 + 10 * z)]

\* what one call alone determines
ZonesOfCall(call) ==
    CASE call.op = "age" -> AgeFormulaZones(220 - call.age)
      [] call.op = "karvonen" -> KarvonenZones(220 - call.age, call.restingHR)
      [] call.op = "manual" ->
            IF call.customZones.defined /\ call.customZones.list # << >>
            THEN call.customZones.list
            ELSE AgeFormulaZones(call.maxHR)
      [] call.op = "reset" -> AgeFormulaZones(190)

\* C8: after any sequence of configureByAge, configureByKarvonen,
\* configureManually and resetToDefaults calls, getZones returns the zones the
\* most recent call alone determines (age formula for 220 - age, Karvonen for
\* the given resting heart rate, the caller's non-empty custom list
\* unchanged, the age-30 defaults with maxHR 190 after a reset or before any
\* call); nothing an earlier call saved influences the result.
C8_ZonesFollowLastCall ==
    getZones = IF cfgCalls = << >>
               THEN AgeFormulaZones(190)
               ELSE ZonesOfCall(cfgCalls[Len(cfgCalls)])

\* a call without custom zones or resting heart rate made right after one
\* that saved some, answered from the later call
C8_Witness ==
    /\ Len(cfgCalls) = 2
    /\ cfgCalls[1].op = "manual"
    /\ cfgCalls[1].customZones.defined
    /\ Len(cfgCalls[1].customZones.list) = 5
    /\ cfgCalls[2].op = "age"
    /\ cfgCalls[2].age = 45
    /\ getZones = AgeFormulaZones(175)
    /\ getZones[2].maxHR = 122

---------------------------------------------------------------------------
(* Claims about the zone calculations *)

SumOfShares(percentages) ==
    percentages.zone1 + percentages.zone2 + percentages.zone3
    + percentages.zone4 + percentages.zone5 + percentages.unknown

Calculated == zPhase \in {"percentages", "type"} /\ SumOfShares(zDist) > 0

\* C9 as stated: for a distribution with a positive total the six rounded
\* percentages sum to a value between 99 and 101 inclusive.
C9_SumWithinOne ==
    Calculated => SumOfShares(zPct) >= 99 /\ SumOfShares(zPct) <= 101

\* C9: for a distribution with non-negative bucket times and a positive
\* total the six independently rounded percentages sum to a value between
\* 97 and 103 inclusive.
C9_SumWithinThree ==
    Calculated => SumOfShares(zPct) >= 97 /\ SumOfShares(zPct) <= 103

\* five buckets of one eighth each and one of three eighths: 5 * 13 + 38
C9_Witness ==
    /\ Calculated
    /\ zDist = ZoneDistribution(1, 1, 1, 1, 1, 3)
    /\ SumOfShares(zPct) = 103

\* the ordered rules of determineTrainingType
Rules(p) ==
    << [label |-> "recovery",
        holds |-> p.zone1 + p.zone2 > 60 /\ p.zone1 > p.zone2],
       [label |-> "endurance",
        holds |-> p.zone2 + p.zone3 > 70 /\ p.zone2 > p.zone3],
       [label |-> "tempo",
        holds |-> p.zone3 + p.zone4 > 50 /\ p.zone3 > p.zone4],
       [label |-> "threshold", holds |-> p.zone4 > 40],
       [label |-> "interval",
        holds |-> p.zone5 > 20 \/ (p.zone4 + p.zone5 > 50 /\ p.zone5 > 15)],
       [label |-> "mixed", holds |-> p.unknown < 50],
       [label |-> "unknown", holds |-> TRUE] >>

FirstMatch(p) ==
    LET i == CHOOSE i \in 1..7 :
                 Rules(p)[i].holds /\ \A j \in 1..(i - 1) : ~Rules(p)[j].holds
    IN  Rules(p)[i].label

\* C10: determineTrainingType returns the label of the first rule, in the
\* order recovery, endurance, tempo, threshold, interval, mixed, unknown,
\* whose condition holds; an input meeting both the recovery and the
\* endurance condition is classified recovery.
C10_FirstMatchWins ==
    zPhase = "type" =>
        /\ zType = FirstMatch(zPct)
        /\ Rules(zPct)[1].holds /\ Rules(zPct)[2].holds => zType = "recovery"

C10_Witness ==
    /\ zPhase = "type"
    /\ Rules(zPct)[1].holds /\ Rules(zPct)[2].holds
    /\ zType = "recovery"

---------------------------------------------------------------------------
(* Claims about getDominantZone *)

ZoneTimeOf(distribution, z) ==
    CASE z = 1 -> distribution.zone1
      [] z = 2 -> distribution.zone2
      [] z = 3 -> distribution.zone3
      [] z = 4 -> distribution.zone4
      [] z = 5 -> distribution.zone5

\* C11: getDominantZone returns the zone in 1..5 with the largest time, the
\* lowest-numbered one when several tie for the largest, never the unknown
\* bucket however large its time, and null exactly when all five zone times
\* are zero.
C11_DominantZone ==
    called = "getDominantZone" =>
        /\ result = NoZone <=> \A z \in 1..5 : ZoneTimeOf(arg, z) = 0
        /\ result # NoZone =>
              /\ result \in 1..5
              /\ \A z \in 1..5 : ZoneTimeOf(arg, z) <= ZoneTimeOf(arg, result)
              /\ \A z \in 1..(result - 1) :
                    ZoneTimeOf(arg, z) < ZoneTimeOf(arg, result)

\* zones 2 and 4 tie for the largest time and the unknown bucket is larger
C11_Witness ==
    /\ called = "getDominantZone"
    /\ arg.zone2 = 2 /\ arg.zone4 = 2 /\ arg.unknown = 3
    /\ arg.zone1 < 2 /\ arg.zone3 < 2 /\ arg.zone5 < 2
    /\ result = 2


---------------------------------------------------------------------------
(* Claims about defineZones *)

\* round(x * p / 100), halves rounded up
RoundExact(x, p) == (x * p + 50) \div 100

\* C12: defineZones with the age method returns exactly five zones numbered
\* 1..5 in ascending order, zone k with minHR = round(maxHR * lo_k / 100) and
\* maxHR = round(maxHR * hi_k / 100) for the bands 50-60, 60-70, 70-80, 80-90
\* and 90-100, each zone's upper bound being the next zone's lower bound;
\* maxHR 190 gives zone 3 = [133, 152].
C12_AgeZones ==
    called = "defineZones" =>
        /\ DOMAIN result = 1..5
        /\ \A k \in 1..5 :
              /\ result[k].zone = k
              /\ result[k].minHR = RoundExact(arg, 40 + 10 * k)
              /\ result[k].maxHR = RoundExact(arg, 50 + 10 * k)
        /\ \A k \in 1..4 : result[k].maxHR = result[k + 1].minHR
        /\ arg = 190 => result[3].minHR = 133 /\ result[3].maxHR = 152


---------------------------------------------------------------------------
(* Claims about calculateStatistics *)

StatsDone == called = "calculateStatistics"

\* the trackpoints of all laps, in order
ArgTrackpoints == AllTrackpoints(arg.laps)

\* C13: for an activity whose laps hold no trackpoint (an activity without
\* laps included) calculateStatistics returns averageSpeed = distanceMeters /
\* totalTimeSeconds, maxSpeed = 0, the distance, time and calories passed
\* through and no heart-rate, cadence, elevation, altitude or pace field;
\* 10000 m in 3000 s gives averageSpeed 10/3.
C13_NoTrackpoints ==
    StatsDone /\ Len(ArgTrackpoints) = 0 =>
        /\ result.averageSpeed = Div(arg.distanceMeters, arg.totalTimeSeconds)
        /\ result.maxSpeed = Num(0)
        /\ result.totalDistance = arg.distanceMeters
        /\ result.totalTime = arg.totalTimeSeconds
        /\ result.totalCalories = arg.calories
        /\ \A f \in {"averageHeartRate", "maxHeartRate", "minHeartRate",
                     "averageCadence", "maxCadence", "elevationGain",
                     "elevationLoss", "minAltitude", "maxAltitude",
                     "averagePace", "maxPace"} : result[f] = NoValue
        /\ arg.distanceMeters = 10000 /\ arg.totalTimeSeconds = 3000 =>
              result.averageSpeed = [n |-> 10, d |-> 3]

\* 10000 m in 3000 s over two laps without trackpoints
C13_Witness ==
    /\ StatsDone
    /\ Len(arg.laps) = 2 /\ Len(ArgTrackpoints) = 0
    /\ arg.distanceMeters = 10000 /\ arg.totalTimeSeconds = 3000
    /\ result.averageSpeed = [n |-> 10, d |-> 3]
    /\ result.maxSpeed = Num(0)


\* C14: calculateStatistics never divides by zero: for every activity, one
\* with totalTimeSeconds = 0 included, averageSpeed is a finite number.
C14_AverageSpeedFinite ==
    StatsDone => result.averageSpeed.d > 0

\* the samples of one field that are present
SampleIndexes(field) ==
    { i \in 1..Len(ArgTrackpoints) : ArgTrackpoints[i][field] # Absent }

RECURSIVE SampleSum(_, _)
SampleSum(field, S) ==
    IF S = {} THEN 0
    ELSE LET i == CHOOSE i \in S : TRUE
         IN  ArgTrackpoints[i][field] + SampleSum(field, S \ {i})

SampleMean(field) ==
    Div(SampleSum(field, SampleIndexes(field)), Cardinality(SampleIndexes(field)))

SampleMax(field) ==
    Num(CHOOSE v \in {ArgTrackpoints[i][field] : i \in SampleIndexes(field)} :
          \A i \in SampleIndexes(field) : ArgTrackpoints[i][field] <= v)

SampleMin(field) ==
    Num(CHOOSE v \in {ArgTrackpoints[i][field] : i \in SampleIndexes(field)} :
          \A i \in SampleIndexes(field) : ArgTrackpoints[i][field] >= v)

\* the altitude samples that are present, in order
ArgAltitudes ==
    SelectSeq([i \in 1..Len(ArgTrackpoints) |-> ArgTrackpoints[i].altitude],
              LAMBDA a : a # Absent)

\* C15: for an activity with at least one trackpoint, averageHeartRate,
\* maxHeartRate and minHeartRate are emitted exactly when some trackpoint has
\* a heart rate, averageCadence and maxCadence exactly when some has a
\* cadence, minAltitude and maxAltitude exactly when some has an altitude,
\* elevationGain (elevationLoss) exactly when the accumulated gain (loss) is
\* strictly positive; each mean is over the present samples only.
C15_OptionalStatistics ==
    StatsDone /\ Len(ArgTrackpoints) > 0 =>
        /\ IF SampleIndexes("heartRate") # {}
           THEN /\ result.averageHeartRate = SampleMean("heartRate")
                /\ result.maxHeartRate = SampleMax("heartRate")
                /\ result.minHeartRate = SampleMin("heartRate")
           ELSE /\ result.averageHeartRate = NoValue
                /\ result.maxHeartRate = NoValue
                /\ result.minHeartRate = NoValue
        /\ IF SampleIndexes("cadence") # {}
           THEN /\ result.averageCadence = SampleMean("cadence")
                /\ result.maxCadence = SampleMax("cadence")
           ELSE /\ result.averageCadence = NoValue
                /\ result.maxCadence = NoValue
        /\ IF SampleIndexes("altitude") # {}
           THEN /\ result.minAltitude = SampleMin("altitude")
                /\ result.maxAltitude = SampleMax("altitude")
           ELSE /\ result.minAltitude = NoValue
                /\ result.maxAltitude = NoValue
        /\ IF ElevationGain(ArgAltitudes) > 0
           THEN result.elevationGain = Num(ElevationGain(ArgAltitudes))
           ELSE result.elevationGain = NoValue
        /\ IF ElevationLoss(ArgAltitudes) > 0
           THEN result.elevationLoss = Num(ElevationLoss(ArgAltitudes))
           ELSE result.elevationLoss = NoValue

\* three trackpoints: heart rates 0, missing, 150 (mean 75 over two samples),
\* one cadence, one altitude and so neither gain nor loss
C15_Witness ==
    /\ StatsDone
    /\ Len(ArgTrackpoints) = 3
    /\ Cardinality(SampleIndexes("heartRate")) = 2
    /\ result.averageHeartRate = Num(75)
    /\ result.minHeartRate = Num(0)
    /\ result.averageCadence = Num(0)
    /\ result.minAltitude = Num(10)
    /\ result.elevationGain = NoValue /\ result.elevationLoss = NoValue

\* C16: with at least one trackpoint carrying a heart rate, maxHeartRate >=
\* averageHeartRate >= minHeartRate, the average being the mean over exactly
\* the trackpoints of all laps that carry a heart rate.
C16_HeartRateOrder ==
    StatsDone /\ SampleIndexes("heartRate") # {} =>
        /\ ~RLt(result.maxHeartRate, result.averageHeartRate)
        /\ ~RLt(result.averageHeartRate, result.minHeartRate)
        /\ IsNumber(result.maxHeartRate) /\ IsNumber(result.minHeartRate)
        /\ result.averageHeartRate.n * Cardinality(SampleIndexes("heartRate"))
              = result.averageHeartRate.d * SampleSum("heartRate", SampleIndexes("heartRate"))

\* heart rates 120 and 151 in different laps and a trackpoint without one:
\* mean 271/2 between 120 and 151
C16_Witness ==
    /\ StatsDone
    /\ Len(ArgTrackpoints) = 3
    /\ Len(arg.laps[1].trackpoints) = 1
    /\ result.averageHeartRate = [n |-> 271, d |-> 2]
    /\ result.maxHeartRate = Num(151) /\ result.minHeartRate = Num(120)


---------------------------------------------------------------------------
(* Claims about the period bounds *)

\* the bounds of the calendar period that contains the date
PeriodBounds(period, date) ==
    CASE period = "week" -> getWeekBounds(date)
      [] period = "month" -> getMonthBounds(date)
      [] period = "year" -> getYearBounds(date)

\* the instant one millisecond after the last instant of a day
InstantAfter(date) == Date(date.day + 1, 0)

\* C19: for week, month and year and every date d, getNextPeriodBounds
\* returns the bounds of the calendar period immediately following the one
\* that contains d: it starts at the instant right after the end of the
\* current period, on whichever day of the month d falls.
C19_NextPeriodFollows ==
    called = "getNextPeriodBounds" =>
        /\ result.start = InstantAfter(PeriodBounds(arg.period, arg.date).end)
        /\ result = PeriodBounds(arg.period, result.start)


Compared == called = "comparePeriods"

\* the change the claim gives for a pair of non-negative values
StatedChange(old, new) ==
    IF old # Num(0)
    THEN Div(100 * (new.n * old.d - old.n * new.d), new.d * old.n)
    ELSE IF RGt(new, Num(0)) THEN Num(100) ELSE Num(0)

\* C17: each change reported by comparePeriods (distance, time, activities,
\* speed) is ((new - old) / old) * 100 when the previous value old is not 0,
\* 100 when old = 0 and the current value is positive, 0 when both are 0.
C17_Changes ==
    Compared =>
        /\ result.changes.distance =
              StatedChange(Num(result.previous.totalDistance),
                           Num(result.current.totalDistance))
        /\ result.changes.time =
              StatedChange(Num(result.previous.totalTime),
                           Num(result.current.totalTime))
        /\ result.changes.activities =
              StatedChange(Num(result.previous.totalActivities),
                           Num(result.current.totalActivities))
        /\ result.changes.speed =
              StatedChange(result.previous.averageSpeed,
                           result.current.averageSpeed)
        /\ result.previous.totalDistance = 0 /\ result.current.totalDistance > 0
              => result.changes.distance = Num(100)

\* one activity in each period: distance up from nothing (100), the count
\* unchanged (0), the time unchanged at 0 (0)
C17_Witness ==
    /\ Compared
    /\ result.previous.totalActivities = 1 /\ result.current.totalActivities = 1
    /\ result.previous.totalDistance = 0 /\ result.current.totalDistance = 10000
    /\ result.changes.distance = Num(100)
    /\ result.changes.activities = Num(0)
    /\ result.changes.time = Num(0)

\* C20: for week (Monday to Sunday), month and year and every date d, the
\* previous range used by comparePeriods is the calendar period immediately
\* preceding the one containing d: it ends right before the current range
\* starts, without gap or overlap, so no activity is counted in both the
\* current and the previous statistics.
C20_PreviousPeriodAdjoins ==
    Compared =>
        LET cur == result.current.dateRange
            prev == result.previous.dateRange
        IN  /\ cur = PeriodBounds(arg.period, arg.date)
            /\ InstantAfter(prev.end) = cur.start
            /\ prev = PeriodBounds(arg.period, prev.end)
            /\ prev = getPreviousPeriodBounds(arg.period, arg.date)
            /\ filterActivitiesByDateRange(arg.activities, cur)
                 \cap filterActivitiesByDateRange(arg.activities, prev) = {}
            /\ result.current.totalActivities + result.previous.totalActivities
                 = Cardinality({ i \in 1..Len(arg.activities) :
                        /\ DateLe(prev.start, arg.activities[i].startTime)
                        /\ DateLe(arg.activities[i].startTime, cur.end) })

\* 31 March 2024 compared by month: February is the previous range, with an
\* activity in its last millisecond and one in the first of March
C20_Witness ==
    /\ Compared
    /\ arg.period = "month" /\ arg.date.day = MakeDay(2024, 3, 31)
    /\ result.previous.dateRange.start = Date(MakeDay(2024, 2, 1), 0)
    /\ result.previous.dateRange.end = Date(MakeDay(2024, 2, 29), LastMs)
    /\ result.previous.totalActivities = 1 /\ result.current.totalActivities = 1
    /\ \E i \in 1..Len(arg.activities) :
          arg.activities[i].startTime = Date(MakeDay(2024, 2, 29), LastMs)
    /\ \E i \in 1..Len(arg.activities) :
          arg.activities[i].startTime = Date(MakeDay(2024, 3, 1), 0)


---------------------------------------------------------------------------
(* Claims about the Strava synchronisation *)

\* the stored rows that hold Strava activity n
StoredAs(table, n) == {k \in DOMAIN table : table[k].id = getActivityId(n)}

\* the positions of a listing that meet their activity already stored: it was
\* stored before the call, or an earlier position of the listing imported it
MetStored(table, listed, failing) ==
    {i \in 1..Len(listed) :
        \/ getActivityId(listed[i]) \in DOMAIN table
        \/ \E j \in 1..(i - 1) : listed[j] = listed[i] /\ j \notin failing}

\* what a step that is a sync call does to the store
SyncStep ==
    strava' = strava =>
      \* each Strava id is stored at most once
      /\ \A n \in StravaIds : Cardinality(StoredAs(activities', n)) <= 1
      \* a stored activity stays as it was stored
      /\ \A k \in DOMAIN activities :
            k \in DOMAIN activities' /\ activities'[k] = activities[k]
      \* requests go out only for activities the store did not have
      /\ \A i \in 1..Len(requests') :
            getActivityId(requests'[i]) \notin DOMAIN activities
      \* what is added was requested, and is what Strava served
      /\ \A k \in DOMAIN activities' \ DOMAIN activities :
            \E i \in 1..Len(requests') :
               /\ k = getActivityId(requests'[i])
               /\ activities'[k] =
                     convertActivity(requests'[i], strava[requests'[i]])
      \* syncActivity of a stored activity returns it without a request
      /\ (/\ called' = "syncActivity"
          /\ getActivityId(arg'.stravaId) \in DOMAIN activities)
            => /\ requests' = << >>
               /\ result' = [threw |-> FALSE,
                             value |-> activities[getActivityId(arg'.stravaId)]]
      \* syncActivities counts the stored activities as skipped and the added
      \* ones as imported
      /\ (called' = "syncActivities" /\ ~arg'.listFails)
            => /\ result'.activitiesSkipped =
                     Cardinality(MetStored(activities, arg'.listed, arg'.failing))
               /\ result'.activitiesImported =
                     Cardinality(DOMAIN activities' \ DOMAIN activities)

\* C18: in any sequence of syncActivity and syncActivities calls, each Strava
\* activity id is stored at most once, an activity already in the store is
\* never overwritten or imported again (syncActivities counts it as skipped,
\* syncActivity returns the stored one without a request), and only
\* activities absent from the store are requested and added.
C18_NoDuplicateImport == [][SyncStep]_vars

\* one syncActivities call has skipped a stored activity and imported an
\* absent one, and the stored one has kept the revision it was imported with
\* although Strava now serves another
C18_Witness ==
    /\ called = "syncActivities"
    /\ result.activitiesSkipped >= 1 /\ result.activitiesImported >= 1
    /\ \E n \in StravaIds :
          /\ getActivityId(n) \in DOMAIN activities
          /\ activities[getActivityId(n)].revision # strava[n]
          /\ n \notin {requests[i] : i \in 1..Len(requests)}


---------------------------------------------------------------------------
(* Claims about the period statistics *)

\* the activities of the argument that start inside the period, ends included
InPeriod ==
    LET range == PeriodBounds(arg.period, arg.date)
    IN  {i \in 1..Len(arg.activities) :
            /\ DateLe(range.start, arg.activities[i].startTime)
            /\ DateLe(arg.activities[i].startTime, range.end)}

RECURSIVE BreakdownSum(_, _, _)
BreakdownSum(breakdown, sports, field) ==
    IF sports = {} THEN 0
    ELSE LET sport == CHOOSE sport \in sports : TRUE
         IN  breakdown[sport][field]
             + BreakdownSum(breakdown, sports \ {sport}, field)

\* C27: the statistics of a period count the activities that start in the
\* period's range, both ends included, total their distances and times, and
\* break them down by sport so that the counts, distances and times of the
\* sports add up to the totals; without such an activity the totals are
\* zero, the average speed is 0 and there is no average heart rate.
C27_PeriodTotals ==
    called = "calculatePeriodStats" =>
        LET breakdown == result.sportBreakdown
        IN  /\ result.dateRange = PeriodBounds(arg.period, arg.date)
            /\ result.totalActivities = Cardinality(InPeriod)
            /\ result.totalDistance =
                  SumField(arg.activities, InPeriod, "distanceMeters")
            /\ result.totalTime =
                  SumField(arg.activities, InPeriod, "totalTimeSeconds")
            /\ BreakdownSum(breakdown, DOMAIN breakdown, "count")
                  = result.totalActivities
            /\ BreakdownSum(breakdown, DOMAIN breakdown, "distance")
                  = result.totalDistance
            /\ BreakdownSum(breakdown, DOMAIN breakdown, "time")
                  = result.totalTime
            /\ InPeriod = {} =>
                  /\ result.totalActivities = 0 /\ result.totalDistance = 0
                  /\ result.totalTime = 0 /\ result.averageSpeed = Num(0)
                  /\ result.averageHeartRate = NoValue
                  /\ DOMAIN breakdown = {}

\* two activities of two sports counted, one starting on the first instant
\* of the period and one on the last, one of them without distance
C27_Witness ==
    /\ called = "calculatePeriodStats"
    /\ result.totalActivities = 2
    /\ Cardinality(DOMAIN result.sportBreakdown) = 2
    /\ {arg.activities[i].startTime : i \in 1..2}
          = {result.dateRange.start, result.dateRange.end}
    /\ \E i \in 1..2 : arg.activities[i].distanceMeters = 0
    /\ result.averageHeartRate = Num(135)


---------------------------------------------------------------------------
(* Claims about the evolution of a metric *)

\* C21: for week, month and year and every current date, getEvolutionData
\* returns numberOfPeriods points, one for each of the consecutive calendar
\* periods that end with the current one, in increasing order of period
\* start: the last point is the current period and each point is the period
\* right before the next point's.
C21_ConsecutivePeriods ==
    called = "getEvolutionData" =>
        LET data == result.data
            n == arg.numberOfPeriods
        IN  /\ Len(data) = n
            /\ n > 0 => data[n].date = PeriodBounds(arg.period, arg.date).start
            /\ \A k \in 1..(n - 1) :
                  InstantAfter(PeriodBounds(arg.period, data[k].date).end)
                     = data[k + 1].date

\* the sums of the two halves of the series handed to calculateTrend
FirstHalfSum == SumSeq([i \in 1..(Len(arg) \div 2) |-> arg[i].value.n])
SecondHalfSum ==
    SumSeq([i \in 1..(Len(arg) - Len(arg) \div 2) |->
               arg[i + Len(arg) \div 2].value.n])

\* C22: calculateTrend returns 'stable' with percentage 0 for fewer than 2
\* points; otherwise, with change = (mean of second half - mean of first
\* half) / mean of first half * 100 and the first half being the first
\* floor(n/2) points, 'stable' when |change| < 5, 'up' when change >= 5 and
\* 'down' when change <= -5; a series whose two half means are equal is
\* always 'stable', also when the first-half mean is 0.
C22_Trend ==
    called = "calculateTrend" =>
        LET h == Len(arg) \div 2
            k == Len(arg) - h
            \* (second mean - first mean) and the first mean, both times h * k
            diff == SecondHalfSum * h - FirstHalfSum * k
            base == FirstHalfSum * k
        IN  IF Len(arg) < 2
            THEN result = [direction |-> "stable", percentage |-> Num(0)]
            ELSE /\ diff = 0 => result.direction = "stable"
                 /\ base > 0 =>
                      /\ Abs(diff) * 100 < 5 * base => result.direction = "stable"
                      /\ diff * 100 >= 5 * base => result.direction = "up"
                      /\ diff * 100 <= -5 * base => result.direction = "down"
                 /\ (base = 0 /\ diff > 0) => result.direction = "up"


---------------------------------------------------------------------------
(* Claims about the speed statistics *)

\* the trackpoints that carry a speed, and those of them with speed > 0
CarryingSpeed == SampleIndexes("speed")
PositiveSpeed == {i \in CarryingSpeed : ArgTrackpoints[i].speed > 0}

\* the laps' declared maximum speeds, a lap without one counting for 0
DeclaredMaxima ==
    {IF arg.laps[i].maximumSpeed = Absent THEN 0 ELSE arg.laps[i].maximumSpeed :
        i \in 1..Len(arg.laps)}

DeclaredMaximum ==
    Num(CHOOSE v \in DeclaredMaxima : \A w \in DeclaredMaxima : w <= v)

PositiveMaximum ==
    Num(CHOOSE v \in {ArgTrackpoints[i].speed : i \in PositiveSpeed} :
           \A i \in PositiveSpeed : ArgTrackpoints[i].speed <= v)

\* C23: calculateStatistics falls back to averageSpeed = distanceMeters /
\* totalTimeSeconds and maxSpeed = the maximum of the laps' declared
\* maximumSpeed exactly when no trackpoint carries a speed; as soon as one
\* trackpoint carries a speed, averageSpeed and maxSpeed are taken over the
\* trackpoints with speed > 0.
C23_SpeedFallback ==
    StatsDone /\ Len(ArgTrackpoints) > 0 =>
        IF CarryingSpeed = {}
        THEN /\ result.averageSpeed =
                   Div(arg.distanceMeters, arg.totalTimeSeconds)
             /\ result.maxSpeed = DeclaredMaximum
        ELSE /\ result.averageSpeed =
                   Div(SampleSum("speed", PositiveSpeed),
                       Cardinality(PositiveSpeed))
             /\ PositiveSpeed # {} => result.maxSpeed = PositiveMaximum

\* C23 as the code has it: with trackpoints, the fallback is used exactly
\* when no trackpoint carries a speed > 0, so also when the only speeds
\* carried are 0; otherwise averageSpeed and maxSpeed are taken over the
\* trackpoints with speed > 0.
C23_SpeedFallbackPositive ==
    StatsDone /\ Len(ArgTrackpoints) > 0 =>
        IF PositiveSpeed = {}
        THEN /\ result.averageSpeed =
                   Div(arg.distanceMeters, arg.totalTimeSeconds)
             /\ result.maxSpeed = DeclaredMaximum
        ELSE /\ result.averageSpeed =
                   Div(SampleSum("speed", PositiveSpeed),
                       Cardinality(PositiveSpeed))
             /\ result.maxSpeed = PositiveMaximum

\* trackpoints that carry only the speed 0, in an activity with a distance,
\* a time and a declared lap maximum: the fallback has been used
C23_Witness ==
    /\ StatsDone /\ CarryingSpeed # {} /\ PositiveSpeed = {}
    /\ arg.distanceMeters = 10000 /\ arg.totalTimeSeconds = 3000
    /\ result.averageSpeed = Div(10, 3) /\ result.maxSpeed = Num(5)


---------------------------------------------------------------------------
(* Claims about the time in zones *)

\* the zone the claim gives a heart rate among five zones
StatedZone(heartRate, zones) ==
    LET containing == {z \in 1..5 : \E i \in 1..5 :
                          /\ zones[i].zone = z
                          /\ zones[i].minHR <= heartRate
                          /\ heartRate <= zones[i].maxHR}
        zone5 == CHOOSE i \in 1..5 : zones[i].zone = 5
        zone1 == CHOOSE i \in 1..5 : zones[i].zone = 1
    IN  IF containing # {}
        THEN CHOOSE z \in containing : \A w \in containing : z <= w
        ELSE IF heartRate > zones[zone5].maxHR THEN 5
        ELSE IF heartRate < zones[zone1].minHR THEN 1
        ELSE NoZone

\* the lists that defineZones computed
ComputedZones ==
    { defineZones(m, Absent, "age") : m \in {175, 190, 200} }
    \cup { defineZones(m, 60, "karvonen") : m \in {175, 190} }

\* C25: among five zones getZoneForHeartRate returns the lowest-numbered
\* zone whose [minHR, maxHR] contains the value, otherwise 5 when the value
\* is above zone 5's max, otherwise 1 when it is below zone 1's min,
\* otherwise null; for the zones that defineZones produces (age or Karvonen)
\* it never returns null.
C25_ZoneForHeartRate ==
    (called = "getZoneForHeartRate" /\ Len(arg.zones) = 5) =>
        /\ result = StatedZone(arg.heartRate, arg.zones)
        /\ arg.zones \in ComputedZones => result \in 1..5

\* a heart rate in the gap between two manual zones has got no zone, and so
\* has not been clamped
C25_Witness ==
    /\ called = "getZoneForHeartRate" /\ Len(arg.zones) = 5
    /\ result = NoZone
    /\ arg.heartRate > arg.zones[1].maxHR /\ arg.heartRate < arg.zones[5].minHR

\* the intervals of the argument: lap, and position of the first trackpoint
ArgIntervals ==
    {<<l, i>> \in (1..Len(arg.activity.laps)) \X (1..MaxZonePoints + 1) :
        i + 1 <= Len(arg.activity.laps[l].trackpoints)}

\* the bucket the claim gives an interval
StatedBucket(interval) ==
    LET hr == arg.activity.laps[interval[1]].trackpoints[interval[2]].heartRate
        zone == StatedZone(hr, arg.zones)
    IN  IF hr = Absent \/ hr = 0 \/ zone = NoZone THEN 0 ELSE zone

Duration(interval) ==
    LET tps == arg.activity.laps[interval[1]].trackpoints
    IN  tps[interval[2] + 1].time - tps[interval[2]].time

RECURSIVE TotalDuration(_)
TotalDuration(intervals) ==
    IF intervals = {} THEN 0
    ELSE LET x == CHOOSE x \in intervals : TRUE
         IN  Duration(x) + TotalDuration(intervals \ {x})

\* last trackpoint time - first trackpoint time, summed over the laps that
\* have trackpoints
RECURSIVE LapSpans(_)
LapSpans(laps) ==
    IF laps = << >> THEN 0
    ELSE LET tps == Head(laps).trackpoints
         IN  (IF Len(tps) = 0 THEN 0 ELSE tps[Len(tps)].time - tps[1].time)
             + LapSpans(Tail(laps))

\* C24: calculateTimeInZones adds the whole duration of every interval
\* between two consecutive trackpoints of one lap to exactly one of the six
\* buckets, chosen from the first trackpoint's heart rate alone (unknown
\* when it is missing), and nothing for the gap between two laps; the six
\* buckets sum to the sum over the laps of (last trackpoint time - first
\* trackpoint time).
C24_TimeInZones ==
    (called = "calculateTimeInZones" /\ Len(arg.zones) = 5) =>
        LET in(b) == TotalDuration({x \in ArgIntervals : StatedBucket(x) = b})
        IN  /\ result = ZoneDistribution(in(1), in(2), in(3), in(4), in(5), in(0))
            /\ result.zone1 + result.zone2 + result.zone3 + result.zone4
                  + result.zone5 + result.unknown = LapSpans(arg.activity.laps)

\* two laps with trackpoints and a gap of 30 s between them: the 10 s of the
\* first lap's interval are in zone 5 and the gap is in no bucket
C24_Witness ==
    /\ called = "calculateTimeInZones" /\ Len(arg.zones) = 5
    /\ Len(arg.activity.laps) = 2
    /\ Len(arg.activity.laps[1].trackpoints) = 2
    /\ Len(arg.activity.laps[2].trackpoints) = 1
    /\ result = ZoneDistribution(0, 0, 0, 0, 10, 0)


---------------------------------------------------------------------------
(* Claims about the training efficiency *)

\* the zones listed in the ideal table of a type, with their ideal shares
IdealTable(type) ==
    CASE type = "recovery" -> [zone1 |-> 60, zone2 |-> 40]
      [] type = "endurance" -> [zone2 |-> 70, zone3 |-> 20, zone1 |-> 10]
      [] type = "tempo" -> [zone3 |-> 60, zone2 |-> 25, zone4 |-> 15]
      [] type = "threshold" -> [zone4 |-> 60, zone3 |-> 30, zone2 |-> 10]
      [] type = "interval" -> [zone5 |-> 40, zone4 |-> 40, zone3 |-> 20]
      [] type = "mixed" -> [zone2 |-> 30, zone3 |-> 30, zone4 |-> 20,
                            zone5 |-> 10, zone1 |-> 10]

RECURSIVE Deviation(_, _, _)
Deviation(percentages, table, zones) ==
    IF zones = {} THEN 0
    ELSE LET z == CHOOSE z \in zones : TRUE
         IN  Abs(percentages[z] - table[z])
             + Deviation(percentages, table, zones \ {z})

\* C26: calculateTrainingEfficiency returns 50 for the type unknown whatever
\* the percentages, and for every other type the rounding (a half going up)
\* of max(0, 100 - mean of |actual - ideal| over the zones of the type's
\* ideal table), an integer in 0..100.
C26_Efficiency ==
    called = "calculateTrainingEfficiency" =>
        IF arg.trainingType = "unknown" THEN result = 50
        ELSE LET table == IdealTable(arg.trainingType)
                 count == Cardinality(DOMAIN table)
                 total == Deviation(arg.percentages, table, DOMAIN table)
                 \* max(0, 100 - mean), times count
                 score == IF total > 100 * count THEN 0 ELSE 100 * count - total
             IN  /\ result \in 0..100
                 \* result - 1/2 <= score / count < result + 1/2
                 /\ (2 * result - 1) * count <= 2 * score
                 /\ 2 * score < (2 * result + 1) * count

\* a mean deviation of 32.5 over the two zones of `recovery` has given 68
C26_Witness ==
    /\ called = "calculateTrainingEfficiency"
    /\ arg.trainingType = "recovery"
    /\ arg.percentages.zone1 = 35 /\ arg.percentages.zone2 = 0
    /\ result = 68


---------------------------------------------------------------------------
(* Claims about concurrent detections *)

\* the records a call has put with a given type and category
PutBy(id, type, category) ==
    {calls[id].newRecords[i] : i \in
        {j \in 1..Len(calls[id].newRecords) :
            /\ calls[id].newRecords[j].type = type
            /\ calls[id].newRecords[j].category = category}}

\* C28: nothing keeps two detectAndSaveRecords calls from interleaving: two
\* calls for activities of one sport can both read the existing records
\* before either writes, and both then persist a record for the same (type,
\* category, sport), each computed against that stale set; but a call made
\* after another one has returned always reads the records the first wrote.
C28_SerialCallsSeeEarlierRecords ==
    \A second \in DOMAIN calls : \A first \in calls[second].returned :
        activities[first].sport = activities[second].sport =>
            /\ \A i \in 1..Len(calls[first].newRecords) :
                  \E j \in 1..Len(calls[second].existingRecords) :
                     calls[second].existingRecords[j] = calls[first].newRecords[i]
            /\ \A i \in 1..Len(calls[second].newRecords) :
                  LET record == calls[second].newRecords[i]
                  IN  PutBy(first, record.type, record.category) # {}
                         => record.previousValue # NoValue

\* two calls for activities of one sport have both read the empty store and
\* both returned, and the store holds a record of each for the same type and
\* category, both without previous value
C28_Witness ==
    \E first, second \in DOMAIN calls :
        /\ first # second
        /\ activities[first].sport = activities[second].sport
        /\ calls[first].at = "returned" /\ calls[second].at = "returned"
        /\ calls[first].existingRecords = << >>
        /\ calls[second].existingRecords = << >>
        /\ \E k1, k2 \in DOMAIN records :
              /\ records[k1].activityId = first /\ records[k2].activityId = second
              /\ records[k1].type = records[k2].type
              /\ records[k1].category = records[k2].category
              /\ records[k1].previousValue = NoValue
              /\ records[k2].previousValue = NoValue


---------------------------------------------------------------------------
(* Claims about serial detections *)

\* what an activity is eligible for: the detections of the passes run without
\* any existing record
Eligible(id) == detectRecords(activities[id], << >>)

Returned == {c \in DOMAIN calls : calls[c].at = "returned"}

\* what each activity of a returned call is eligible for
EligibleOfReturned == [c \in Returned |-> Eligible(c)]

\* the values the activities of the returned calls brought for a record type
\* and category of a sport
ProcessedValues(eligible, type, category, sport) ==
    UNION {{eligible[c][j].value :
               j \in {i \in 1..Len(eligible[c]) :
                         /\ eligible[c][i].recordType = type
                         /\ eligible[c][i].category = category}} :
           c \in {r \in DOMAIN eligible : activities[r].sport = sport}}

StoredValues(type, category, sport) ==
    {records[k].value : k \in {r \in DOMAIN records :
                                  /\ records[r].type = type
                                  /\ records[r].category = category
                                  /\ records[r].sport = sport}}

\* no value of the set is better: lower for a time, higher otherwise
IsBest(value, values, type) ==
    \A other \in values :
        IF type = "time" THEN ~RLt(other, value) ELSE ~RGt(other, value)

\* C29: after any sequence of serial detectAndSaveRecords calls on distinct
\* activities, with no record deleted, the store holds for every (type,
\* category, sport) some processed activity was eligible for a record whose
\* value is the best over the processed eligible activities: the maximum for
\* distance, speed, elevation and calories, the minimum for time.
C29_BestIsStored ==
    LET eligible == EligibleOfReturned IN
    \A id \in DOMAIN eligible : \A i \in 1..Len(eligible[id]) :
        LET type == eligible[id][i].recordType
            category == eligible[id][i].category
            sport == activities[id].sport
            values == ProcessedValues(eligible, type, category, sport)
        IN  \E value \in values :
               /\ IsBest(value, values, type)
               /\ value \in StoredValues(type, category, sport)

\* every call has returned, and for the time over a distance band one
\* activity was not recorded since it was slower, while the fastest time is
\* stored next to a slower one recorded before it
C29_Witness ==
    /\ Returned = ActIds
    /\ \E slow, fast, unrecorded \in ActIds : \E k1, k2 \in DOMAIN records :
          /\ records[k1].type = "time" /\ records[k2].type = "time"
          /\ records[k1].category = records[k2].category
          /\ records[k1].sport = records[k2].sport
          /\ records[k1].activityId = slow /\ records[k2].activityId = fast
          /\ RLt(records[k2].value, records[k1].value)
          /\ records[k2].previousValue = records[k1].value
          /\ activities[unrecorded].sport = records[k1].sport
          /\ \E i \in 1..Len(Eligible(unrecorded)) :
                /\ Eligible(unrecorded)[i].recordType = "time"
                /\ Eligible(unrecorded)[i].category = records[k1].category
          /\ \A k \in DOMAIN records :
                records[k].activityId = unrecorded => records[k].type # "time"


---------------------------------------------------------------------------
(* Claims about the commentary hook *)

\* C30: the latest request wins: when generate is called while a generation
\* is in flight, or cancel is called during it, then in whatever order the
\* pending generations settle the superseded or cancelled generation never
\* writes its result into the commentary state, and isGenerating is false
\* only when no generation that can still update the state is in flight.
C30_LatestRequestWins ==
    /\ hook.commentary.generation \notin hook.aborted
    /\ ~hook.isGenerating => DOMAIN pending \subseteq hook.aborted


=============================================================================
